---- MODULE Spec2Model ----
(***************************************************************************)
(* A model of the Google Sheets plugin (src/src/index.ts): the execute     *)
(* dispatcher, the read, append, create-rows and clear flows with their    *)
(* remote calls, and the pure resolver and projection functions between   *)
(* header rows, records and grids.                                        *)
(*                                                                         *)
(* Conventions                                                             *)
(*  - a JS string that the code only compares, stores or concatenates is   *)
(*    a TLA+ string; a string the code parses (the user's range) is a      *)
(*    sequence of one-character strings, joined by JoinStr when the code   *)
(*    interpolates it;                                                     *)
(*  - a JS object is a sequence of <<key, value>> pairs with distinct      *)
(*    keys, in insertion order;                                            *)
(*  - a JS array is a sequence; a hole or an undefined element is the      *)
(*    value undefined;                                                     *)
(*  - a falsy optional string ("" or absent) is "" (or <<>> for a parsed   *)
(*    string), a falsy optional number is 0.                               *)
(***************************************************************************)
EXTENDS Integers, Sequences, FiniteSets, TLC

VARIABLES
  req,                \* the actionConfiguration handed to execute
  pc,                 \* where the handler stands: start, an awaited call, done, failed
  calls,              \* the remote calls issued so far, in order
  columnNames,        \* readFromSpreadsheet's columnNames
  columnNamesOffset,  \* readFromSpreadsheet's columnNamesOffset
  headerResult,       \* what the awaited get of extractSheetColumns resolved to, cut to its first row
  dataResult,         \* what the awaited get of readFromSpreadsheet, or of extractSheetRows, resolved to
  output,             \* ExecutionOutput.output, once returned
  error,              \* the message of the error execute throws, once thrown
  jsonData,           \* projection check: the records given
  dataColumns,        \* projection check: extractDataColumns(jsonData)
  cellsResult,        \* projection check: dataToCells(jsonData, dataColumns)
  recordSet,          \* projection check: sheetDataToRecordSet(cells, dataColumns, 0)
  stage,              \* projection check: which function is applied next
  statuses,           \* result.status of every remote call that has resolved, in order
  thrown,             \* the message of the error caught by execute's catch block
  rowsNumber,         \* doAppend's and appendToSpreadsheet's rowsNumber
  allColumns,         \* doAppend's allColumns, doWrite's columnNames
  headerRow,          \* resolver check: the header row of the sheet
  rawGrid,            \* resolver check: the grid handed to sheetDataToRecordSet
  headerColumns,      \* resolver check: the columns of the from-header strategy
  extendedValue,      \* decode check: the extended value of one cell
  decoded             \* decode check: extractExtendedValue(extendedValue)

vars == <<req, pc, calls, columnNames, columnNamesOffset, headerResult, dataResult,
          output, error, jsonData, dataColumns, cellsResult, recordSet, stage,
          statuses, thrown, rowsNumber, allColumns, headerRow, rawGrid, headerColumns,
          extendedValue, decoded>>

readVars == <<req, pc, calls, columnNames, columnNamesOffset, headerResult, dataResult,
              output, error>>

projectionVars == <<jsonData, dataColumns, cellsResult, recordSet, stage>>

writeVars == <<statuses, thrown, rowsNumber, allColumns>>

resolverVars == <<headerRow, rawGrid, headerColumns>>

decodeVars == <<extendedValue, decoded>>

(***************************************************************************)
(* Bounds of the model                                                     *)
(***************************************************************************)
MaxCols == 2
MaxRows == 2
MaxKeys == 2
MaxRecords == 2

(***************************************************************************)
(* Strings                                                                 *)
(***************************************************************************)
undefined == "<undefined>"

RECURSIVE JoinStr(_)
JoinStr(s) == IF s = <<>> THEN "" ELSE Head(s) \o JoinStr(Tail(s))

RECURSIVE JoinWith(_, _)
JoinWith(s, sep) ==
  IF s = <<>> THEN ""
  ELSE IF Len(s) = 1 THEN s[1]
  ELSE s[1] \o sep \o JoinWith(Tail(s), sep)

LowerCasePairs == { <<"Name", "name">>, <<"ACI", "aci">>, <<"Subname", "subname">>,
                    <<"NewCol", "newcol">> }

toLowerCase(s) ==
  IF \E p \in LowerCasePairs : p[1] = s
  THEN (CHOOSE p \in LowerCasePairs : p[1] = s)[2]
  ELSE s

MAX_A1_RANGE == "ZZZ10000000"
MAX_COLUMN == "ZZZ"

(***************************************************************************)
(* JS objects and arrays                                                   *)
(***************************************************************************)
ObjKeys(o) == [i \in 1..Len(o) |-> o[i][1]]

ObjHas(o, k) == \E i \in 1..Len(o) : o[i][1] = k

ObjGet(o, k) == o[CHOOSE i \in 1..Len(o) : o[i][1] = k][2]

ObjSet(o, k, v) ==
  IF ObjHas(o, k)
  THEN [i \in 1..Len(o) |-> IF o[i][1] = k THEN <<k, v>> ELSE o[i]]
  ELSE Append(o, <<k, v>>)

\* arr[index] = v for a zero-based index, leaving holes when index > arr.length
ArraySet(arr, index, v) ==
  IF index < Len(arr)
  THEN [arr EXCEPT ![index + 1] = v]
  ELSE arr \o [j \in 1..(index - Len(arr)) |-> undefined] \o <<v>>

RECURSIVE Distinct(_, _)
Distinct(s, seen) ==
  IF s = <<>> THEN <<>>
  ELSE IF Head(s) \in seen THEN Distinct(Tail(s), seen)
  ELSE <<Head(s)>> \o Distinct(Tail(s), seen \cup {Head(s)})

RECURSIVE AllKeys(_)
AllKeys(data) == IF data = <<>> THEN <<>> ELSE ObjKeys(Head(data)) \o AllKeys(Tail(data))

(***************************************************************************)
(* Range Addressing: the A1 class the code imports                         *)
(***************************************************************************)
Alphabet == <<"A", "B", "C", "D", "E", "F", "G", "H", "I", "J", "K", "L", "M",
              "N", "O", "P", "Q", "R", "S", "T", "U", "V", "W", "X", "Y", "Z">>

DigitChars == <<"0", "1", "2", "3", "4", "5", "6", "7", "8", "9">>

IsLetter(c) == \E i \in DOMAIN Alphabet : Alphabet[i] = c

IsDigit(c) == \E i \in DOMAIN DigitChars : DigitChars[i] = c

LetterValue(c) == CHOOSE i \in DOMAIN Alphabet : Alphabet[i] = c

DigitValue(c) == (CHOOSE i \in DOMAIN DigitChars : DigitChars[i] = c) - 1

RECURSIVE LettersToNumber(_, _)
LettersToNumber(s, acc) ==
  IF s = <<>> THEN acc ELSE LettersToNumber(Tail(s), acc * 26 + LetterValue(Head(s)))

RECURSIVE DigitsToNumber(_, _)
DigitsToNumber(s, acc) ==
  IF s = <<>> THEN acc ELSE DigitsToNumber(Tail(s), acc * 10 + DigitValue(Head(s)))

RECURSIVE NumberToLetters(_)
NumberToLetters(n) ==
  IF n <= 0 THEN ""
  ELSE NumberToLetters((n - 1) \div 26) \o Alphabet[((n - 1) % 26) + 1]

RECURSIVE LettersLen(_)
LettersLen(s) == IF s # <<>> /\ IsLetter(Head(s)) THEN 1 + LettersLen(Tail(s)) ELSE 0

RECURSIVE DigitsLen(_)
DigitsLen(s) == IF s # <<>> /\ IsDigit(Head(s)) THEN 1 + DigitsLen(Tail(s)) ELSE 0

\* one cell reference: letters then digits, at least one of each, nothing else
A1_cell(s) ==
  LET l == LettersLen(s)
      d == DigitsLen(SubSeq(s, l + 1, Len(s)))
  IN  IF l >= 1 /\ d >= 1 /\ l + d = Len(s)
      THEN [ok |-> TRUE,
            col |-> LettersToNumber(SubSeq(s, 1, l), 0),
            row |-> DigitsToNumber(SubSeq(s, l + 1, Len(s)), 0)]
      ELSE [ok |-> FALSE, col |-> 0, row |-> 0]

ColonAt(s) == IF \E i \in 1..Len(s) : s[i] = ":"
              THEN CHOOSE i \in 1..Len(s) : s[i] = ":" /\ \A j \in 1..(i - 1) : s[j] # ":"
              ELSE 0

\* A1.isValid: a cell, or two cells joined by a colon
A1_isValid(s) ==
  LET c == ColonAt(s)
  IN  IF c = 0 THEN A1_cell(s).ok
      ELSE A1_cell(SubSeq(s, 1, c - 1)).ok /\ A1_cell(SubSeq(s, c + 1, Len(s))).ok

Min(a, b) == IF a <= b THEN a ELSE b

Max(a, b) == IF a >= b THEN a ELSE b

\* new A1(range) of a valid range: its corners, start before end
A1_new(s) ==
  LET c == ColonAt(s)
      first == IF c = 0 THEN A1_cell(s) ELSE A1_cell(SubSeq(s, 1, c - 1))
      last == IF c = 0 THEN A1_cell(s) ELSE A1_cell(SubSeq(s, c + 1, Len(s)))
  IN  [colStart |-> Min(first.col, last.col), rowStart |-> Min(first.row, last.row),
       colEnd |-> Max(first.col, last.col), rowEnd |-> Max(first.row, last.row)]

A1_toString(a) ==
  LET start == NumberToLetters(a.colStart) \o ToString(a.rowStart)
      end == NumberToLetters(a.colEnd) \o ToString(a.rowEnd)
  IN  IF start = end THEN start ELSE start \o ":" \o end

A1_getCol(a) == a.colStart

A1_getRow(a) == a.rowStart

A1_getHeight(a) == a.rowEnd - a.rowStart + 1

\* removeY(count): count < 0 removes -count rows from the top, never past the last row
A1_removeY(a, count) ==
  IF count >= 0
  THEN [a EXCEPT !.rowEnd = Max(a.rowEnd - count, a.rowStart)]
  ELSE [a EXCEPT !.rowStart = Min(a.rowStart - count, a.rowEnd)]

(***************************************************************************)
(* Column Resolver and Record Projector: the pure functions                *)
(***************************************************************************)
SheetColumn(name, index) == [name |-> name, type |-> "sheet", sourceColumnIndex |-> index]

toExcelColumnName(columnIndex) == "column" \o ToString(columnIndex)

\* HeaderColumns with the first cell of the row skipped
HeaderColumnsSkippingFirst(row) ==
  [i \in 1..(Len(row) - 1) |-> SheetColumn(row[i + 1], i - 1)]

\* the columns pushed by values[0].forEach
HeaderColumns(row) == [i \in 1..Len(row) |-> SheetColumn(row[i], i - 1)]

\* extractDataColumns numbering the columns from 1
extractDataColumnsOneBased(data) ==
  IF data = <<>> THEN <<>>
  ELSE LET columnsSet == Distinct(AllKeys(data), {})
       IN  [i \in 1..Len(columnsSet) |-> SheetColumn(columnsSet[i], i)]

\* extractDataColumns reading the keys of the first record only
extractDataColumnsOfFirstRow(data) ==
  IF data = <<>> THEN <<>>
  ELSE LET columnsSet == Distinct(ObjKeys(Head(data)), {})
       IN  [i \in 1..Len(columnsSet) |-> SheetColumn(columnsSet[i], i - 1)]

extractDataColumns(data) ==
  IF data = <<>> THEN <<>>
  ELSE LET columnsSet == Distinct(AllKeys(data), {})
       IN  [i \in 1..Len(columnsSet) |-> SheetColumn(columnsSet[i], i - 1)]

\* FindColumn comparing the names as they are spelled
FindColumnCaseSensitive(columns, key) ==
  IF \E i \in 1..Len(columns) : columns[i].name = key
  THEN CHOOSE i \in 1..Len(columns) :
         columns[i].name = key /\ \A j \in 1..(i - 1) : columns[j].name # key
  ELSE 0

\* columns.find((column) => column.name?.toLowerCase() === key?.toLowerCase()): 0 when none
FindColumn(columns, key) ==
  IF \E i \in 1..Len(columns) : toLowerCase(columns[i].name) = toLowerCase(key)
  THEN CHOOSE i \in 1..Len(columns) :
         /\ toLowerCase(columns[i].name) = toLowerCase(key)
         /\ \A j \in 1..(i - 1) : toLowerCase(columns[j].name) # toLowerCase(key)
  ELSE 0

UnexpectedKeyMessage(key, columns) ==
  LET named == SelectSeq(columns, LAMBDA c : c.name # "")
      quoted == [i \in 1..Len(named) |-> "\"" \o named[i].name \o "\""]
  IN  "Unexpected key: \"" \o key \o "\". Expected keys are: " \o JoinWith(quoted, ", ")

\* the body of Object.keys(row).forEach for one record, from the key at position k on
RECURSIVE RowValues(_, _, _, _)
RowValues(row, k, columns, acc) ==
  IF k > Len(row) \/ ~acc.ok THEN acc
  ELSE LET key == row[k][1]
           m == FindColumn(columns, key)
       IN  IF Len(columns) > 0
           THEN IF m = 0
                THEN [ok |-> FALSE, values |-> acc.values,
                      message |-> UnexpectedKeyMessage(key, columns)]
                ELSE RowValues(row, k + 1, columns,
                       [acc EXCEPT !.values = ArraySet(@, columns[m].sourceColumnIndex, row[k][2])])
           ELSE RowValues(row, k + 1, columns, [acc EXCEPT !.values = Append(@, row[k][2])])

\* [ok, cells, message]: the grid returned, or the message of the error thrown
RECURSIVE dataToCells(_, _)
dataToCells(data, columns) ==
  IF data = <<>> THEN [ok |-> TRUE, cells |-> <<>>, message |-> ""]
  ELSE LET first == RowValues(Head(data), 1, columns, [ok |-> TRUE, values |-> <<>>, message |-> ""])
           rest == dataToCells(Tail(data), columns)
       IN  IF ~first.ok THEN [ok |-> FALSE, cells |-> <<>>, message |-> first.message]
           ELSE IF ~rest.ok THEN rest
           ELSE [ok |-> TRUE, cells |-> <<first.values>> \o rest.cells, message |-> ""]

\* the inner loop of sheetDataToRecordSet over one row, from cellIndex on
RECURSIVE RowRecord(_, _, _, _, _)
RowRecord(row, cellIndex, sheetColumns, offset, currentRow) ==
  IF cellIndex >= Len(row) THEN currentRow
  ELSE LET at == cellIndex + offset
           columnName == IF at >= 0 /\ at < Len(sheetColumns)
                         THEN sheetColumns[at + 1].name
                         ELSE toExcelColumnName(at)
           cellData == row[cellIndex + 1]
       IN  RowRecord(row, cellIndex + 1, sheetColumns, offset,
                     IF cellData # undefined THEN ObjSet(currentRow, columnName, cellData)
                     ELSE currentRow)

\* sheetDataToRecordSet keeping, of the cells under one column name, the left-most
sheetDataToRecordSetFirstWins(sheetData, sheetColumns, offset) ==
  [rowIndex \in 1..Len(sheetData) |->
     LET row == sheetData[rowIndex]
         name(i) == IF i - 1 + offset >= 0 /\ i - 1 + offset < Len(sheetColumns)
                    THEN sheetColumns[i + offset].name
                    ELSE toExcelColumnName(i - 1 + offset)
     IN  RowRecord([i \in 1..Len(row) |->
                      IF \E j \in 1..(i - 1) : name(j) = name(i) /\ row[j] # undefined
                      THEN undefined ELSE row[i]],
                   0, sheetColumns, offset, <<>>)]

\* sheetDataToRecordSet giving every column of the list a cell, "" where the row has none
sheetDataToRecordSetPadded(sheetData, sheetColumns, offset) ==
  [rowIndex \in 1..Len(sheetData) |->
     RowRecord([i \in 1..Max(Len(sheetData[rowIndex]), Len(sheetColumns)) |->
                  IF i <= Len(sheetData[rowIndex]) /\ sheetData[rowIndex][i] # undefined
                  THEN sheetData[rowIndex][i] ELSE ""],
               0, sheetColumns, offset, <<>>)]

sheetDataToRecordSet(sheetData, sheetColumns, offset) ==
  [rowIndex \in 1..Len(sheetData) |-> RowRecord(sheetData[rowIndex], 0, sheetColumns, offset, <<>>)]

\* the forEach loops of extractAllColumns over the keys still to visit
RECURSIVE MergeKeys(_, _, _)
MergeKeys(keys, columns, missingColumnsIndex) ==
  IF keys = <<>> THEN columns
  ELSE IF \E i \in 1..Len(columns) : columns[i].name = Head(keys)
       THEN MergeKeys(Tail(keys), columns, missingColumnsIndex)
       ELSE MergeKeys(Tail(keys),
                      Append(columns, SheetColumn(Head(keys), missingColumnsIndex)),
                      missingColumnsIndex + 1)

\* extractAllColumns returning the columns of the header row alone
extractAllColumnsOfHeader(result, data) ==
  IF result.hasValues /\ Len(result.values) = 1
  THEN HeaderColumns(result.values[1]) ELSE <<>>

\* extractAllColumns numbering the columns it adds from 0
extractAllColumnsFromZero(result, data) ==
  LET columns == IF result.hasValues /\ Len(result.values) = 1
                 THEN HeaderColumns(result.values[1]) ELSE <<>>
  IN  MergeKeys(AllKeys(data), columns, 0)

\* extractAllColumns once its get has resolved
extractAllColumns(result, data) ==
  LET columns == IF result.hasValues /\ Len(result.values) = 1
                 THEN HeaderColumns(result.values[1]) ELSE <<>>
  IN  MergeKeys(AllKeys(data), columns, Len(columns))

\* result.data?.values?.length ?? 0
extractSheetRows(result) == IF result.hasValues THEN Len(result.values) ELSE 0

(***************************************************************************)
(* Cell decode: extended values and extractExtendedValue                   *)
(***************************************************************************)
\* a property that is not set, and the value undefined
Absent == [kind |-> "undefined"]

Null == [kind |-> "null"]

StringValue(text) == [kind |-> "string", string |-> text]

NumberValue(n) == [kind |-> "number", number |-> n]

BoolValue(b) == [kind |-> "boolean", boolean |-> b]

\* a Schema$ErrorValue
ErrorValue(type, message) == [kind |-> "error", type |-> type, message |-> message]

\* a ?? b
NullishCoalesce(a, b) == IF a \in {Absent, Null} THEN b ELSE a

\* the extended value handed over is itself undefined
NoExtendedValue == [given |-> FALSE]

\* the Schema$ExtendedValue objects: every variant unset, null or set
ExtendedValues ==
  [given : {TRUE},
   stringValue : {Absent, Null, StringValue(""), StringValue("text")},
   numberValue : {Absent, Null, NumberValue(0), NumberValue(5)},
   boolValue : {Absent, Null, BoolValue(FALSE), BoolValue(TRUE)},
   errorValue : {Absent, Null, ErrorValue("DIVIDE_BY_ZERO", "#DIV/0!")},
   formulaValue : {Absent, Null, StringValue("=A1+1")}]

extractExtendedValue(value) ==
  IF ~value.given THEN Absent
  ELSE NullishCoalesce(value.stringValue,
         NullishCoalesce(value.numberValue,
           NullishCoalesce(value.boolValue,
             NullishCoalesce(value.errorValue,
               NullishCoalesce(value.formulaValue, Absent)))))

(***************************************************************************)
(* The Spreadsheet Client: what an awaited get may resolve to              *)
(***************************************************************************)
Cells == {"Subname", "ACI"}

Rows == UNION {[1..n -> Cells] : n \in 0..MaxCols}

Grids == UNION {[1..n -> Rows] : n \in 0..MaxRows}

\* result.status and result.data.values (hasValues false: no values in the reply)
GetResults ==
  {[status |-> 200, hasValues |-> TRUE, values |-> g] : g \in Grids}
    \cup {[status |-> s, hasValues |-> FALSE, values |-> <<>>] : s \in {200, 500}}

\* what a get on a range of one row may resolve to
HeaderRowResults == {r \in GetResults : Len(r.values) <= 1}

\* the replies that differ in what extractSheetColumnsRows reads: the first row and the
\* number of rows (every further row repeats the first)
HeaderAndHeightResults ==
  {r \in GetResults : \A i \in 1..Len(r.values) : r.values[i] = r.values[1]}

\* the replies that differ in what extractSheetRows reads: the number of rows (every
\* row holds the one cell "Subname")
HeightResults ==
  {r \in GetResults : \A i \in 1..Len(r.values) : r.values[i] = <<"Subname">>}

NoResult == [status |-> 0, hasValues |-> FALSE, values |-> <<>>]

RemoteCall(op, range) == [op |-> op, range |-> range]

(***************************************************************************)
(* The rows to write                                                       *)
(***************************************************************************)
WriteKeys == {"Subname", "subname", "NewCol"}

\* the value record number k holds under key
ValueAt(key, k) ==
  (IF key = "Subname" THEN "X" ELSE IF key = "subname" THEN "x" ELSE "Y") \o ToString(k)

\* the objects record number k may be: at most MaxKeys keys, in every key order
WriteObjects(k) ==
  UNION {{[i \in 1..n |-> <<ks[i], ValueAt(ks[i], k)>>] :
            ks \in {q \in [1..n -> WriteKeys] : \A i, j \in 1..n : i # j => q[i] # q[j]}}
         : n \in 0..MaxKeys}

WriteData ==
  UNION {{d \in [1..n -> UNION {WriteObjects(k) : k \in 1..n}] :
            \A k \in 1..n : d[k] \in WriteObjects(k)}
         : n \in 0..MaxRecords}

\* the payloads the write flows are run on: at most MaxKeys keys in all
FlowData == {d \in WriteData : Len(AllKeys(d)) <= MaxKeys}

\* actionConfiguration.data: absent, not JSON, or the JSON text of rows
DataTexts ==
  {[kind |-> "absent", rows |-> <<>>], [kind |-> "malformed", rows |-> <<>>]}
    \cup {[kind |-> "rows", rows |-> d] : d \in FlowData}

(***************************************************************************)
(* Optional numbers of the action configuration: <<>> when absent, <<n>>   *)
(***************************************************************************)
Nullish(x, default) == IF x = <<>> THEN default ELSE x[1]

Falsy(x) == x = <<>> \/ x[1] = 0

\* `${x}`
NumberText(x) == IF x = <<>> THEN "undefined" ELSE ToString(x[1])

(***************************************************************************)
(* Action requests                                                         *)
(***************************************************************************)
InvalidRanges == { <<"X", "X">>, <<"A", "1", ":">>, <<"1", "A">> }

CanonicalRanges ==
  { <<"A", "1">>, <<"B", "2">>,
    <<"A", "1", ":", "B", "1">>, <<"A", "1", ":", "B", "2">>,
    <<"B", "1", ":", "B", "2">>, <<"B", "1", ":", "B", "3">>, <<"B", "1", ":", "C", "2">>,
    <<"A", "2", ":", "B", "3">>, <<"B", "2", ":", "C", "3">> }

\* valid for A1.isValid, and not what toString gives back
NonCanonicalRanges ==
  { <<"B", "2", ":", "A", "1">>, <<"B", "1", ":", "A", "1">>, <<"A", "3", ":", "A", "2">> }

RangeInputs == InvalidRanges \cup CanonicalRanges \cup NonCanonicalRanges

ReadRequests ==
  [action : {"READ_SPREADSHEET"}, spreadsheetId : {"sheetId"}, sheetTitle : {"sheetTitle"},
   range : {<<>>, <<"B", "1", ":", "B", "3">>}, extractFirstRowHeader : BOOLEAN]

ReadRangeRequests ==
  [action : {"READ_SPREADSHEET_RANGE"}, spreadsheetId : {"sheetId"}, sheetTitle : {"sheetTitle"},
   range : RangeInputs \cup {<<>>}, extractFirstRowHeader : BOOLEAN]

IncompleteRequests ==
  [action : {"READ_SPREADSHEET_RANGE"}, spreadsheetId : {""}, sheetTitle : {"sheetTitle"},
   range : {<<"X", "X">>, <<"A", "1", ":", "B", "2">>}, extractFirstRowHeader : {TRUE}]
    \cup
  [action : {"READ_SPREADSHEET"}, spreadsheetId : {"sheetId"}, sheetTitle : {""},
   range : {<<>>}, extractFirstRowHeader : {FALSE}]

\* one payload of two records, for the requests that vary the other fields
SamplePayload ==
  [kind |-> "rows",
   rows |-> << << <<"Subname", "X1">> >>, << <<"NewCol", "Y2">> >> >>]

\* Create-Rows with the Append destination
CreateAppendRequests ==
  [action : {"CREATE_SPREADSHEET_ROWS"}, spreadsheetId : {"sheetId"}, sheetTitle : {"sheetTitle"},
   data : DataTexts, writeToDestinationType : {"APPEND"}, rowNumber : {<<>>},
   includeHeaderRow : BOOLEAN, headerRowNumber : {<<>>, <<2>>}, preserveHeaderRow : {FALSE}]

\* Create-Rows with the RowNumber destination, header row before the data
CreateRowNumberRequests ==
  [action : {"CREATE_SPREADSHEET_ROWS"}, spreadsheetId : {"sheetId"}, sheetTitle : {"sheetTitle"},
   data : DataTexts, writeToDestinationType : {"ROW_NUMBER"}, rowNumber : {<<2>>, <<3>>},
   includeHeaderRow : BOOLEAN, headerRowNumber : {<<>>, <<1>>}, preserveHeaderRow : {FALSE}]

\* Create-Rows with every combination of row numbers, present or not
CreateRowsNumberingRequests ==
  [action : {"CREATE_SPREADSHEET_ROWS"}, spreadsheetId : {"sheetId"}, sheetTitle : {"sheetTitle"},
   data : {SamplePayload}, writeToDestinationType : {"ROW_NUMBER", "APPEND", ""},
   rowNumber : {<<>>, <<0>>, <<-2>>, <<1>>, <<2>>},
   includeHeaderRow : BOOLEAN, headerRowNumber : {<<>>, <<0>>, <<-3>>, <<1>>, <<2>>, <<42>>},
   preserveHeaderRow : BOOLEAN]

ClearRequests ==
  [action : {"CLEAR_SPREADSHEET"}, spreadsheetId : {"sheetId"}, sheetTitle : {"sheetTitle"},
   data : {[kind |-> "absent", rows |-> <<>>]}, writeToDestinationType : {""}, rowNumber : {<<>>},
   includeHeaderRow : {FALSE}, headerRowNumber : {<<>>, <<0>>, <<-1>>, <<1>>, <<2>>},
   preserveHeaderRow : BOOLEAN]

\* the deprecated append action
AppendRequests ==
  [action : {"APPEND_SPREADSHEET"}, spreadsheetId : {"sheetId"}, sheetTitle : {"sheetTitle"},
   data : DataTexts, writeToDestinationType : {""}, rowNumber : {<<>>},
   includeHeaderRow : {FALSE}, headerRowNumber : {<<>>}, preserveHeaderRow : {FALSE}]

\* an action execute does not know, and write requests naming no spreadsheet or sheet
OtherRequests ==
  [action : {"UNKNOWN", "CLEAR_SPREADSHEET", "CREATE_SPREADSHEET_ROWS"},
   spreadsheetId : {"sheetId", ""}, sheetTitle : {"sheetTitle", ""},
   data : {SamplePayload}, writeToDestinationType : {"APPEND"}, rowNumber : {<<>>},
   includeHeaderRow : {FALSE}, headerRowNumber : {<<>>}, preserveHeaderRow : {FALSE}]

WriteRequests ==
  CreateAppendRequests \cup CreateRowNumberRequests \cup CreateRowsNumberingRequests
    \cup ClearRequests \cup AppendRequests \cup OtherRequests

Requests == ReadRequests \cup ReadRangeRequests \cup IncompleteRequests \cup WriteRequests

(***************************************************************************)
(* execute and the read flow                                               *)
(***************************************************************************)
\* the message of the error a validator throws, "" when it throws nothing
validateCommon(actionConfiguration) ==
  IF actionConfiguration.spreadsheetId = "" THEN "Spreadsheet is required"
  ELSE IF actionConfiguration.sheetTitle = "" THEN "Sheet name is required"
  ELSE ""

\* validateReadRange letting every range through
validateReadRangeAccepting(actionConfiguration) == ""

validateReadRange(actionConfiguration) ==
  IF actionConfiguration.range # <<>> /\ ~A1_isValid(actionConfiguration.range)
  THEN "The provided range " \o JoinStr(actionConfiguration.range) \o " is invalid"
  ELSE ""

\* the message of JSON.parse on a text that is not JSON
JSONParseMessage == "Unexpected end of JSON input"

\* validateRowsSchema of the schemas package: the message of its error, "" for rows
validateRowsSchema(data) == ""

\* the message validateRowsToAppend throws, "" when it returns the parsed rows
validateRowsToAppend(data) ==
  IF data.kind = "absent" THEN "Rows to append are required"
  ELSE IF data.kind = "malformed"
       THEN "Failed to parse rows to append as JSON: " \o JSONParseMessage
  ELSE IF validateRowsSchema(data.rows) # ""
       THEN "Validation failed for rows to append: " \o validateRowsSchema(data.rows)
  ELSE ""

\* validateCreateRows without the comparison of the two row numbers
validateCreateRowsUnordered(actionConfiguration) ==
  LET rowNumber == actionConfiguration.rowNumber
      headerRowNumber == actionConfiguration.headerRowNumber
      toRow == actionConfiguration.writeToDestinationType = "ROW_NUMBER"
  IN  IF toRow /\ Falsy(rowNumber) THEN "Row number is required"
      ELSE IF toRow /\ rowNumber[1] <= 0 THEN "Row number has to be a positive number"
      ELSE IF actionConfiguration.preserveHeaderRow /\ Falsy(headerRowNumber)
           THEN "Header row number is required because you are including a header row"
      ELSE IF actionConfiguration.preserveHeaderRow /\ headerRowNumber[1] <= 0
           THEN "Header row number has to be a positive number"
      ELSE IF actionConfiguration.writeToDestinationType = "" THEN "Write location is required"
      ELSE validateRowsToAppend(actionConfiguration.data)

validateCreateRows(actionConfiguration) ==
  LET rowNumber == actionConfiguration.rowNumber
      headerRowNumber == actionConfiguration.headerRowNumber
      toRow == actionConfiguration.writeToDestinationType = "ROW_NUMBER"
  IN  IF toRow /\ Falsy(rowNumber) THEN "Row number is required"
      ELSE IF toRow /\ Nullish(headerRowNumber, 0) >= rowNumber[1]
           THEN "Data must be inserted after the table header row number ("
                  \o NumberText(headerRowNumber) \o ")"
      ELSE IF toRow /\ rowNumber[1] <= 0 THEN "Row number has to be a positive number"
      ELSE IF actionConfiguration.preserveHeaderRow /\ Falsy(headerRowNumber)
           THEN "Header row number is required because you are including a header row"
      ELSE IF actionConfiguration.preserveHeaderRow /\ headerRowNumber[1] <= 0
           THEN "Header row number has to be a positive number"
      ELSE IF actionConfiguration.writeToDestinationType = "" THEN "Write location is required"
      ELSE validateRowsToAppend(actionConfiguration.data)

validateClear(actionConfiguration) ==
  IF actionConfiguration.preserveHeaderRow /\ Falsy(actionConfiguration.headerRowNumber)
  THEN "Header row number is required because you are including a header row"
  ELSE ""

\* what execute throws before it calls the action's handler, "" when nothing
ExecuteValidation(actionConfiguration) ==
  IF validateCommon(actionConfiguration) # "" THEN validateCommon(actionConfiguration)
  ELSE IF actionConfiguration.action = "READ_SPREADSHEET" THEN ""
  ELSE IF actionConfiguration.action = "READ_SPREADSHEET_RANGE"
       THEN validateReadRange(actionConfiguration)
  ELSE IF actionConfiguration.action = "APPEND_SPREADSHEET"
       THEN validateRowsToAppend(actionConfiguration.data)
  ELSE IF actionConfiguration.action = "CREATE_SPREADSHEET_ROWS"
       THEN validateCreateRows(actionConfiguration)
  ELSE IF actionConfiguration.action = "CLEAR_SPREADSHEET"
       THEN validateClear(actionConfiguration)
  ELSE actionConfiguration.action \o " is not supported action"

\* the catch block of execute rethrowing the error as it came
ExecuteErrorUnwrapped(message) == message

\* the catch block of execute
ExecuteError(message) == "Google Sheets request failed. " \o message

\* the range argument execute hands to readFromSpreadsheet
RangeArgument(actionConfiguration) ==
  IF actionConfiguration.action = "READ_SPREADSHEET_RANGE" THEN actionConfiguration.range
  ELSE <<>>

\* extractFirstRowHeader ? 1 : undefined
HeaderRowArgument(actionConfiguration) ==
  IF actionConfiguration.extractFirstRowHeader THEN 1 ELSE 0

\* the range extractSheetColumns fetches
HeaderFetchRange(sheetTitle, headerRowNumber) ==
  sheetTitle \o "!A" \o ToString(IF headerRowNumber = 0 THEN 1 ELSE headerRowNumber)
    \o ":" \o MAX_A1_RANGE

MissingHeaderMessage(headerRowNumber) ==
  "The specifed row number(" \o ToString(IF headerRowNumber = 0 THEN 1 ELSE headerRowNumber)
    \o ") doesn't have a header."

\* values[0].forEach on an empty values
ForEachOfUndefinedMessage == "Cannot read properties of undefined (reading 'forEach')"

\* extractSheetColumns once its get has resolved: the columns, or the message thrown
extractSheetColumns(headerRowNumber, result) ==
  IF headerRowNumber # 0 /\ ~result.hasValues
  THEN [ok |-> FALSE, columns |-> <<>>, message |-> MissingHeaderMessage(headerRowNumber)]
  ELSE IF result.hasValues
       THEN IF result.values = <<>>
            THEN [ok |-> FALSE, columns |-> <<>>, message |-> ForEachOfUndefinedMessage]
            ELSE [ok |-> TRUE, columns |-> HeaderColumns(result.values[1]), message |-> ""]
  ELSE [ok |-> TRUE, columns |-> <<>>, message |-> ""]

\* IsHeaderOnlyRange with the early return dropped
IsHeaderOnlyRangeNever(a1Range) == FALSE

\* a1Range.getHeight() === 1 && a1Range.getRow() === 1
IsHeaderOnlyRange(a1Range) == A1_getHeight(a1Range) = 1 /\ A1_getRow(a1Range) = 1

\* AdjustedRange leaving the header row in the range
AdjustedRangeUnchanged(a1Range) == a1Range

\* a1Range.getRow() === 1 ? a1Range.removeY(-1) : a1Range
AdjustedRange(a1Range) ==
  IF A1_getRow(a1Range) = 1 THEN A1_removeY(a1Range, -1) ELSE a1Range

InvalidRangeMessage(range) == "The provided range " \o JoinStr(range) \o " is invalid"

\* readFromSpreadsheet between its two awaits: throw, return the empty set, or get a range
ReadPlan(sheetTitle, range, extractFirstRowHeader) ==
  IF range # <<>> /\ extractFirstRowHeader
  THEN IF ~A1_isValid(range)
       THEN [kind |-> "throw", range |-> "", offset |-> 0,
             message |-> "Invalid A1 notation: \"" \o JoinStr(range) \o "\""]
       ELSE IF JoinStr(range) # A1_toString(A1_new(range))
       THEN [kind |-> "throw", range |-> "", offset |-> 0,
             message |-> InvalidRangeMessage(range)]
       ELSE IF IsHeaderOnlyRange(A1_new(range))
       THEN [kind |-> "return", range |-> "", offset |-> 0, message |-> ""]
       ELSE [kind |-> "get",
             range |-> sheetTitle \o "!" \o A1_toString(AdjustedRange(A1_new(range))),
             offset |-> A1_getCol(A1_new(range)) - 1, message |-> ""]
  ELSE IF range # <<>>
  THEN [kind |-> "get", range |-> sheetTitle \o "!" \o JoinStr(range), offset |-> 0, message |-> ""]
  ELSE IF extractFirstRowHeader
  THEN [kind |-> "get", range |-> sheetTitle \o "!A2:" \o MAX_A1_RANGE, offset |-> 0, message |-> ""]
  ELSE [kind |-> "get", range |-> sheetTitle \o "!A1:" \o MAX_A1_RANGE, offset |-> 0, message |-> ""]

FirstRowOnly(result) ==
  [result EXCEPT !.values = SubSeq(result.values, 1, Min(1, Len(result.values)))]

Init ==
  /\ req \in Requests
  /\ pc = "start"
  /\ calls = <<>>
  /\ columnNames = <<>>
  /\ columnNamesOffset = 0
  /\ headerResult = NoResult
  /\ dataResult = NoResult
  /\ output = <<>>
  /\ error = ""
  /\ jsonData = <<>>
  /\ dataColumns = <<>>
  /\ cellsResult = [ok |-> TRUE, cells |-> <<>>, message |-> ""]
  /\ recordSet = <<>>
  /\ stage = "idle"
  /\ statuses = <<>>
  /\ thrown = ""
  /\ rowsNumber = 0
  /\ allColumns = <<>>
  /\ headerRow = <<>>
  /\ rawGrid = <<>>
  /\ headerColumns = <<>>
  /\ extendedValue = NoExtendedValue
  /\ decoded = Absent

\* execute up to its first await: validation of every action, and the dispatch of the
\* two read actions up to the get of extractSheetColumns
Execute ==
  /\ pc = "start"
  /\ \/ ExecuteValidation(req) # ""
     \/ req.action \in {"READ_SPREADSHEET", "READ_SPREADSHEET_RANGE"}
  /\ IF ExecuteValidation(req) # ""
     THEN /\ pc' = "failed"
          /\ thrown' = ExecuteValidation(req)
          /\ error' = ExecuteError(ExecuteValidation(req))
          /\ UNCHANGED calls
     ELSE /\ pc' = "extractSheetColumns"
          /\ calls' = Append(calls, RemoteCall("get",
                        HeaderFetchRange(req.sheetTitle, HeaderRowArgument(req))))
          /\ UNCHANGED <<error, thrown>>
  /\ UNCHANGED <<req, columnNames, columnNamesOffset, headerResult, dataResult, output>>
  /\ UNCHANGED <<statuses, rowsNumber, allColumns>>
  /\ UNCHANGED <<projectionVars, resolverVars, decodeVars>>

\* the get of extractSheetColumns resolves; readFromSpreadsheet runs to its next await
ExtractSheetColumnsReturns ==
  /\ pc = "extractSheetColumns"
  /\ \E result \in GetResults :
       LET extracted == extractSheetColumns(HeaderRowArgument(req), result)
           plan == ReadPlan(req.sheetTitle, RangeArgument(req), req.extractFirstRowHeader)
       IN  /\ headerResult' = FirstRowOnly(result)
           /\ statuses' = Append(statuses, result.status)
           /\ IF ~extracted.ok
              THEN /\ pc' = "failed"
                   /\ thrown' = extracted.message
                   /\ error' = ExecuteError(extracted.message)
                   /\ UNCHANGED <<calls, columnNames, columnNamesOffset, output>>
              ELSE /\ columnNames' = extracted.columns
                   /\ IF plan.kind = "throw"
                      THEN /\ pc' = "failed"
                           /\ thrown' = plan.message
                           /\ error' = ExecuteError(plan.message)
                           /\ UNCHANGED <<calls, columnNamesOffset, output>>
                      ELSE IF plan.kind = "return"
                      THEN /\ pc' = "done"
                           /\ output' = sheetDataToRecordSet(<<>>, extracted.columns, 0)
                           /\ UNCHANGED <<calls, columnNamesOffset, error, thrown>>
                      ELSE /\ pc' = "getValues"
                           /\ calls' = Append(calls, RemoteCall("get", plan.range))
                           /\ columnNamesOffset' = plan.offset
                           /\ UNCHANGED <<output, error, thrown>>
  /\ UNCHANGED <<req, dataResult, rowsNumber, allColumns>>
  /\ UNCHANGED <<projectionVars, resolverVars, decodeVars>>

\* the data get resolves; readFromSpreadsheet and execute return
GetValuesReturns ==
  /\ pc = "getValues"
  /\ \E result \in GetResults :
       /\ dataResult' = result
       /\ statuses' = Append(statuses, result.status)
       /\ output' = sheetDataToRecordSet(IF result.hasValues THEN result.values ELSE <<>>,
                                         columnNames, columnNamesOffset)
  /\ pc' = "done"
  /\ UNCHANGED <<req, calls, columnNames, columnNamesOffset, headerResult, error>>
  /\ UNCHANGED <<thrown, rowsNumber, allColumns>>
  /\ UNCHANGED <<projectionVars, resolverVars, decodeVars>>

(***************************************************************************)
(* The write flows: appendToSpreadsheet, writeToSpreadsheet with doAppend  *)
(* and doWrite, writeTableHeader, clearSheet                               *)
(***************************************************************************)
\* headerRowNumber ?? 1
HeaderRowNumberArgument(actionConfiguration) == Nullish(actionConfiguration.headerRowNumber, 1)

\* rowNumber ?? 2
RowNumberArgument(actionConfiguration) == Nullish(actionConfiguration.rowNumber, 2)

\* the rows validateRowsToAppend returns
JsonData(actionConfiguration) == actionConfiguration.data.rows

\* a call that carries a request body
RemoteWrite(op, range, values) == [op |-> op, range |-> range, values |-> values]

WholeSheetRange(sheetTitle) == sheetTitle \o "!A" \o ToString(1) \o ":" \o MAX_A1_RANGE

\* `${sheetTitle}!A${headerRowNumber}:${MAX_COLUMN}${headerRowNumber}`
HeaderRowRange(sheetTitle, headerRowNumber) ==
  sheetTitle \o "!A" \o ToString(headerRowNumber) \o ":" \o MAX_COLUMN
    \o ToString(headerRowNumber)

\* AppendRange addressing the last row in use instead of the row after it
AppendRangeAtLastRow(sheetTitle, rows) ==
  sheetTitle \o "!A" \o ToString(rows) \o ":" \o MAX_COLUMN \o ToString(rows)

\* `${sheetTitle}!A${rowsNumber + 1}:${MAX_COLUMN}${rowsNumber + 1}`
AppendRange(sheetTitle, rows) ==
  sheetTitle \o "!A" \o ToString(rows + 1) \o ":" \o MAX_COLUMN \o ToString(rows + 1)

\* `${sheetTitle}!A${rowsNumber + 1}:L${rowsNumber + 1}`
DeprecatedAppendRange(sheetTitle, rows) ==
  sheetTitle \o "!A" \o ToString(rows + 1) \o ":L" \o ToString(rows + 1)

\* DestinationRange ending one row further down
DestinationRangeOneMore(sheetTitle, rowNumber, length) ==
  sheetTitle \o "!A" \o ToString(rowNumber) \o ":" \o MAX_COLUMN
    \o ToString(rowNumber + length)

\* `${sheetTitle}!A${rowNumber}:${MAX_COLUMN}${rowNumber + rowsData.length - 1}`
DestinationRange(sheetTitle, rowNumber, length) ==
  sheetTitle \o "!A" \o ToString(rowNumber) \o ":" \o MAX_COLUMN
    \o ToString(rowNumber + length - 1)

\* rangeToClear starting at the header row itself
RangeToClearFromHeader(sheetTitle, preserveHeaderRow, headerRowNumber) ==
  IF preserveHeaderRow
  THEN sheetTitle \o "!A" \o ToString(headerRowNumber) \o ":" \o MAX_A1_RANGE
  ELSE sheetTitle \o "!A1:" \o MAX_A1_RANGE

\* clearSheet's rangeToClear
RangeToClear(sheetTitle, preserveHeaderRow, headerRowNumber) ==
  IF preserveHeaderRow
  THEN sheetTitle \o "!A" \o ToString(headerRowNumber + 1) \o ":" \o MAX_A1_RANGE
  ELSE sheetTitle \o "!A1:" \o MAX_A1_RANGE

StatusMessage(what, status) == what \o ", unexpected status: " \o ToString(status)

\* result.data of a clear, update or append: without and with the updates of an append
ResponseData ==
  { << <<"spreadsheetId", "sheetId">> >>,
    << <<"spreadsheetId", "sheetId">>, <<"updates", << <<"updatedRows", "2">> >> >> >> }

\* what an awaited clear, update or append may resolve to
WriteResults ==
  {[status |-> 200, data |-> d] : d \in ResponseData}
    \cup {[status |-> 500, data |-> <<>>]}

\* appendResult.data.updates
Updates(data) == IF ObjHas(data, "updates") THEN ObjGet(data, "updates") ELSE undefined

\* the ExecutionOutput appendToSpreadsheet returns, which execute stores as its output
ExecutionOutput(value) == << <<"log", <<>> >>, <<"output", value>> >>

\* extractSheetColumnsRows once its get has resolved
extractSheetColumnsRows(result) ==
  IF ~result.hasValues THEN [ok |-> TRUE, columns |-> <<>>, rows |-> 0, message |-> ""]
  ELSE IF result.values = <<>>
       THEN [ok |-> FALSE, columns |-> <<>>, rows |-> 0, message |-> ForEachOfUndefinedMessage]
  ELSE [ok |-> TRUE, columns |-> HeaderColumns(result.values[1]),
        rows |-> Len(result.values), message |-> ""]

\* an error reaches the catch block of execute
Throw(message) ==
  /\ pc' = "failed"
  /\ thrown' = message
  /\ error' = ExecuteError(message)
  /\ UNCHANGED <<calls, output>>

\* a remote call is issued and awaited
Await(at, call) ==
  /\ pc' = at
  /\ calls' = Append(calls, call)
  /\ UNCHANGED <<thrown, error, output>>

\* execute returns
Return(value) ==
  /\ pc' = "done"
  /\ output' = value
  /\ UNCHANGED <<calls, thrown, error>>

\* writeTableHeader going to its update without the clear
IssueHeaderUpdateWithoutClear ==
  Await("headerUpdate",
        RemoteCall("update", HeaderRowRange(req.sheetTitle, HeaderRowNumberArgument(req))))

\* writeTableHeader up to its clear
IssueHeaderClear ==
  Await("headerClear",
        RemoteCall("clear", HeaderRowRange(req.sheetTitle, HeaderRowNumberArgument(req))))

\* doAppend from dataToCells to its append
IssueAppend(columns, rows) ==
  LET rowsData == dataToCells(JsonData(req), columns)
  IN  IF ~rowsData.ok THEN Throw(rowsData.message)
      ELSE Await("append",
                 RemoteWrite("append", AppendRange(req.sheetTitle, rows), rowsData.cells))

\* doWrite from dataToCells to its clear
IssueDestinationClear(columns) ==
  LET rowsData == dataToCells(JsonData(req), columns)
  IN  IF ~rowsData.ok THEN Throw(rowsData.message)
      ELSE Await("clear",
                 RemoteCall("clear", DestinationRange(req.sheetTitle, RowNumberArgument(req),
                                                      Len(rowsData.cells))))

\* what the write flows leave alone
readOnlyVars == <<req, columnNamesOffset, headerResult, dataResult>>

\* execute dispatching Create-Rows: doAppend to the get of extractSheetRows, doWrite to
\* its first clear
ExecuteCreateRows ==
  /\ pc = "start"
  /\ req.action = "CREATE_SPREADSHEET_ROWS"
  /\ ExecuteValidation(req) = ""
  /\ IF req.writeToDestinationType = "APPEND"
     THEN /\ Await("extractSheetRows", RemoteCall("get", WholeSheetRange(req.sheetTitle)))
          /\ UNCHANGED allColumns
     ELSE /\ allColumns' = extractDataColumns(JsonData(req))
          /\ IF req.includeHeaderRow THEN IssueHeaderClear
             ELSE IssueDestinationClear(allColumns')
  /\ UNCHANGED <<statuses, rowsNumber, columnNames>>
  /\ UNCHANGED <<readOnlyVars, projectionVars, resolverVars, decodeVars>>

\* the get of extractSheetRows resolves; doAppend runs to its next await: the get of
\* extractAllColumns, or the await of extractDataColumns
ExtractSheetRowsReturns ==
  /\ pc = "extractSheetRows"
  /\ \E result \in HeightResults :
       /\ dataResult' = result
       /\ statuses' = Append(statuses, result.status)
       /\ rowsNumber' = Max(extractSheetRows(result), HeaderRowNumberArgument(req))
       /\ IF req.includeHeaderRow
          THEN /\ Await("extractAllColumns",
                        RemoteCall("get", HeaderRowRange(req.sheetTitle,
                                                         HeaderRowNumberArgument(req))))
               /\ UNCHANGED allColumns
          ELSE /\ pc' = "extractDataColumns"
               /\ UNCHANGED <<calls, thrown, error, output, allColumns>>
  /\ UNCHANGED columnNames
  /\ UNCHANGED <<req, columnNamesOffset, headerResult, projectionVars, resolverVars, decodeVars>>

\* doAppend resumes from `await this.extractDataColumns(jsonData)` and runs to its append
ExtractDataColumnsResumes ==
  /\ pc = "extractDataColumns"
  /\ allColumns' = extractDataColumns(JsonData(req))
  /\ IssueAppend(allColumns', rowsNumber)
  /\ UNCHANGED <<statuses, rowsNumber, columnNames>>
  /\ UNCHANGED <<readOnlyVars, projectionVars, resolverVars, decodeVars>>

\* the get of extractAllColumns resolves; writeTableHeader issues its clear
ExtractAllColumnsReturns ==
  /\ pc = "extractAllColumns"
  /\ \E result \in HeaderRowResults :
       /\ headerResult' = result
       /\ statuses' = Append(statuses, result.status)
       /\ allColumns' = extractAllColumns(result, JsonData(req))
  /\ IssueHeaderClear
  /\ UNCHANGED <<rowsNumber, columnNames>>
  /\ UNCHANGED <<req, columnNamesOffset, dataResult, projectionVars, resolverVars, decodeVars>>

\* HeaderClearReturns going on to the update whatever the status of the clear
HeaderClearReturnsIgnoringStatus ==
  /\ pc = "headerClear"
  /\ \E result \in WriteResults :
       /\ statuses' = Append(statuses, result.status)
       /\ Await("headerUpdate",
                RemoteWrite("update",
                            HeaderRowRange(req.sheetTitle, HeaderRowNumberArgument(req)),
                            << [i \in 1..Len(allColumns) |-> allColumns[i].name] >>))
  /\ UNCHANGED <<rowsNumber, allColumns, columnNames>>
  /\ UNCHANGED <<readOnlyVars, projectionVars, resolverVars, decodeVars>>

\* the clear of writeTableHeader resolves
HeaderClearReturns ==
  /\ pc = "headerClear"
  /\ \E result \in WriteResults :
       /\ statuses' = Append(statuses, result.status)
       /\ IF result.status # 200
          THEN Throw(StatusMessage("Failed to clear Google Sheet", result.status))
          ELSE Await("headerUpdate",
                     RemoteWrite("update",
                                 HeaderRowRange(req.sheetTitle, HeaderRowNumberArgument(req)),
                                 << [i \in 1..Len(allColumns) |-> allColumns[i].name] >>))
  /\ UNCHANGED <<rowsNumber, allColumns, columnNames>>
  /\ UNCHANGED <<readOnlyVars, projectionVars, resolverVars, decodeVars>>

\* the update of writeTableHeader resolves; doAppend or doWrite runs to its next await
HeaderUpdateReturns ==
  /\ pc = "headerUpdate"
  /\ \E result \in WriteResults :
       /\ statuses' = Append(statuses, result.status)
       /\ IF result.status # 200
          THEN Throw(StatusMessage("Failed to write table header to Google Sheet",
                                   result.status))
          ELSE IF req.writeToDestinationType = "APPEND"
               THEN IssueAppend(allColumns, rowsNumber)
               ELSE IssueDestinationClear(allColumns)
  /\ UNCHANGED <<rowsNumber, allColumns, columnNames>>
  /\ UNCHANGED <<readOnlyVars, projectionVars, resolverVars, decodeVars>>

\* the clear of doWrite resolves
DestinationClearReturns ==
  /\ pc = "clear"
  /\ \E result \in WriteResults :
       /\ statuses' = Append(statuses, result.status)
       /\ IF result.status # 200
          THEN Throw(StatusMessage("Failed to clear data to Google Sheet", result.status))
          ELSE LET rowsData == dataToCells(JsonData(req), allColumns).cells
               IN  Await("update",
                         RemoteWrite("update",
                                     DestinationRange(req.sheetTitle, RowNumberArgument(req),
                                                      Len(rowsData)),
                                     rowsData))
  /\ UNCHANGED <<rowsNumber, allColumns, columnNames>>
  /\ UNCHANGED <<readOnlyVars, projectionVars, resolverVars, decodeVars>>

\* the update of doWrite resolves
DestinationUpdateReturns ==
  /\ pc = "update"
  /\ \E result \in WriteResults :
       /\ statuses' = Append(statuses, result.status)
       /\ IF result.status # 200
          THEN Throw(StatusMessage("Failed to write data to Google Sheet", result.status))
          ELSE Return(result.data)
  /\ UNCHANGED <<rowsNumber, allColumns, columnNames>>
  /\ UNCHANGED <<readOnlyVars, projectionVars, resolverVars, decodeVars>>

\* the append of doAppend or of appendToSpreadsheet resolves
AppendReturns ==
  /\ pc = "append"
  /\ \E result \in WriteResults :
       /\ statuses' = Append(statuses, result.status)
       /\ IF result.status # 200
          THEN Throw(StatusMessage("Failed to append data to Google Sheet", result.status))
          ELSE IF req.action = "APPEND_SPREADSHEET"
               THEN Return(ExecutionOutput(Updates(result.data)))
               ELSE Return(Updates(result.data))
  /\ UNCHANGED <<rowsNumber, allColumns, columnNames>>
  /\ UNCHANGED <<readOnlyVars, projectionVars, resolverVars, decodeVars>>

\* execute dispatching Clear: clearSheet to its clear
ExecuteClear ==
  /\ pc = "start"
  /\ req.action = "CLEAR_SPREADSHEET"
  /\ ExecuteValidation(req) = ""
  /\ Await("clearSheet",
           RemoteCall("clear", RangeToClear(req.sheetTitle, req.preserveHeaderRow,
                                            HeaderRowNumberArgument(req))))
  /\ UNCHANGED <<statuses, rowsNumber, allColumns, columnNames>>
  /\ UNCHANGED <<readOnlyVars, projectionVars, resolverVars, decodeVars>>

\* the clear of clearSheet resolves
ClearSheetReturns ==
  /\ pc = "clearSheet"
  /\ \E result \in WriteResults :
       /\ statuses' = Append(statuses, result.status)
       /\ IF result.status # 200
          THEN Throw(StatusMessage("Failed to clear Google Sheet", result.status))
          ELSE Return(result.data)
  /\ UNCHANGED <<rowsNumber, allColumns, columnNames>>
  /\ UNCHANGED <<readOnlyVars, projectionVars, resolverVars, decodeVars>>

\* execute dispatching the deprecated append, to the get of extractSheetColumnsRows
ExecuteAppend ==
  /\ pc = "start"
  /\ req.action = "APPEND_SPREADSHEET"
  /\ ExecuteValidation(req) = ""
  /\ Await("extractSheetColumnsRows",
           RemoteCall("get", req.sheetTitle \o "!A1:" \o MAX_A1_RANGE))
  /\ UNCHANGED <<statuses, rowsNumber, allColumns, columnNames>>
  /\ UNCHANGED <<readOnlyVars, projectionVars, resolverVars, decodeVars>>

\* the get of extractSheetColumnsRows resolves; appendToSpreadsheet runs to its append
ExtractSheetColumnsRowsReturns ==
  /\ pc = "extractSheetColumnsRows"
  /\ \E result \in HeaderAndHeightResults :
       LET extracted == extractSheetColumnsRows(result)
           rowsData == dataToCells(JsonData(req), extracted.columns)
       IN  /\ statuses' = Append(statuses, result.status)
           /\ IF ~extracted.ok
              THEN /\ Throw(extracted.message)
                   /\ UNCHANGED <<columnNames, rowsNumber>>
              ELSE /\ columnNames' = extracted.columns
                   /\ rowsNumber' = extracted.rows
                   /\ IF ~rowsData.ok THEN Throw(rowsData.message)
                      ELSE Await("append",
                                 RemoteWrite("append",
                                             DeprecatedAppendRange(req.sheetTitle,
                                                                   extracted.rows),
                                             rowsData.cells))
  /\ UNCHANGED allColumns
  /\ UNCHANGED <<readOnlyVars, projectionVars, resolverVars, decodeVars>>

Next ==
  \/ Execute \/ ExtractSheetColumnsReturns \/ GetValuesReturns
  \/ ExecuteCreateRows \/ ExtractSheetRowsReturns \/ ExtractDataColumnsResumes
  \/ ExtractAllColumnsReturns
  \/ HeaderClearReturns \/ HeaderUpdateReturns
  \/ DestinationClearReturns \/ DestinationUpdateReturns \/ AppendReturns
  \/ ExecuteClear \/ ClearSheetReturns
  \/ ExecuteAppend \/ ExtractSheetColumnsRowsReturns

Spec == Init /\ [][Next]_vars

(***************************************************************************)
(* The projection functions applied to bounded inputs                      *)
(***************************************************************************)
Keys == {"Name", "name", "ACI"}

Values == {"X", "Y"}

\* objects with at most MaxKeys keys, in every key order
Objects ==
  UNION {{o \in [1..n -> Keys \X Values] : \A i, j \in 1..n : i # j => o[i][1] # o[j][1]}
         : n \in 0..MaxKeys}

DataInputs == UNION {[1..n -> Objects] : n \in 0..MaxRecords}

InitProjection ==
  /\ jsonData \in DataInputs
  /\ dataColumns = <<>>
  /\ cellsResult = [ok |-> TRUE, cells |-> <<>>, message |-> ""]
  /\ recordSet = <<>>
  /\ stage = "extractDataColumns"
  /\ req = [action |-> "NONE", spreadsheetId |-> "", sheetTitle |-> "", range |-> <<>>,
            extractFirstRowHeader |-> FALSE]
  /\ pc = "idle"
  /\ calls = <<>>
  /\ columnNames = <<>>
  /\ columnNamesOffset = 0
  /\ headerResult = NoResult
  /\ dataResult = NoResult
  /\ output = <<>>
  /\ error = ""
  /\ statuses = <<>>
  /\ thrown = ""
  /\ rowsNumber = 0
  /\ allColumns = <<>>
  /\ headerRow = <<>>
  /\ rawGrid = <<>>
  /\ headerColumns = <<>>
  /\ extendedValue = NoExtendedValue
  /\ decoded = Absent

ApplyExtractDataColumns ==
  /\ stage = "extractDataColumns"
  /\ dataColumns' = extractDataColumns(jsonData)
  /\ stage' = "dataToCells"
  /\ UNCHANGED <<jsonData, cellsResult, recordSet>>
  /\ UNCHANGED readVars
  /\ UNCHANGED <<writeVars, resolverVars, decodeVars>>

ApplyDataToCells ==
  /\ stage = "dataToCells"
  /\ cellsResult' = dataToCells(jsonData, dataColumns)
  /\ stage' = IF cellsResult'.ok THEN "sheetDataToRecordSet" ELSE "thrown"
  /\ UNCHANGED <<jsonData, dataColumns, recordSet>>
  /\ UNCHANGED readVars
  /\ UNCHANGED <<writeVars, resolverVars, decodeVars>>

ApplySheetDataToRecordSet ==
  /\ stage = "sheetDataToRecordSet"
  /\ recordSet' = sheetDataToRecordSet(cellsResult.cells, dataColumns, 0)
  /\ stage' = "done"
  /\ UNCHANGED <<jsonData, dataColumns, cellsResult>>
  /\ UNCHANGED readVars
  /\ UNCHANGED <<writeVars, resolverVars, decodeVars>>

NextProjection == ApplyExtractDataColumns \/ ApplyDataToCells \/ ApplySheetDataToRecordSet

SpecProjection == InitProjection /\ [][NextProjection]_vars

(***************************************************************************)
(* The resolver strategies and the two projections applied to a header row *)
(* with records, and to a header row with a sparse grid                    *)
(***************************************************************************)
HeaderNames == Cells \cup {""}

HeaderRows == UNION {[1..n -> HeaderNames] : n \in 0..MaxCols}

SparseRows == UNION {[1..n -> {"X", undefined}] : n \in 0..MaxCols}

SparseGrids == UNION {[1..n -> SparseRows] : n \in 0..MaxRows}

\* the reply of a get on a header row holding row
HeaderReply(row) == [status |-> 200, hasValues |-> TRUE, values |-> <<row>>]

InitResolver ==
  /\ headerRow \in HeaderRows
  /\ \/ jsonData \in WriteData /\ rawGrid = <<>> /\ stage = "resolve"
     \/ jsonData = <<>> /\ rawGrid \in SparseGrids /\ stage = "records"
  /\ headerColumns = <<>>
  /\ dataColumns = <<>>
  /\ allColumns = <<>>
  /\ cellsResult = [ok |-> TRUE, cells |-> <<>>, message |-> ""]
  /\ recordSet = <<>>
  /\ req = [action |-> "NONE", spreadsheetId |-> "", sheetTitle |-> "", range |-> <<>>,
            extractFirstRowHeader |-> FALSE]
  /\ pc = "idle"
  /\ calls = <<>>
  /\ columnNames = <<>>
  /\ columnNamesOffset = 0
  /\ headerResult = NoResult
  /\ dataResult = NoResult
  /\ output = <<>>
  /\ error = ""
  /\ statuses = <<>>
  /\ thrown = ""
  /\ rowsNumber = 0
  /\ extendedValue = NoExtendedValue
  /\ decoded = Absent

\* the three strategies: from the header, from the data, merged
ResolveColumns ==
  /\ stage = "resolve"
  /\ headerColumns' = extractSheetColumns(1, HeaderReply(headerRow)).columns
  /\ dataColumns' = extractDataColumns(jsonData)
  /\ allColumns' = extractAllColumns(HeaderReply(headerRow), jsonData)
  /\ stage' = "project"
  /\ UNCHANGED <<jsonData, cellsResult, recordSet, headerRow, rawGrid>>
  /\ UNCHANGED <<readVars, statuses, thrown, rowsNumber, decodeVars>>

\* dataToCells against the columns of the header
ProjectToGrid ==
  /\ stage = "project"
  /\ cellsResult' = dataToCells(jsonData, headerColumns)
  /\ stage' = IF cellsResult'.ok THEN "projected" ELSE "thrown"
  /\ UNCHANGED <<jsonData, dataColumns, recordSet>>
  /\ UNCHANGED <<readVars, writeVars, resolverVars, decodeVars>>

\* sheetDataToRecordSet of a grid against the columns of the header
ProjectToRecords ==
  /\ stage = "records"
  /\ headerColumns' = extractSheetColumns(1, HeaderReply(headerRow)).columns
  /\ recordSet' = sheetDataToRecordSet(rawGrid, headerColumns', 0)
  /\ stage' = "done"
  /\ UNCHANGED <<jsonData, dataColumns, cellsResult, headerRow, rawGrid>>
  /\ UNCHANGED <<readVars, writeVars, decodeVars>>

NextResolver == ResolveColumns \/ ProjectToGrid \/ ProjectToRecords

SpecResolver == InitResolver /\ [][NextResolver]_vars

(***************************************************************************)
(* The cell decode applied to every extended value                         *)
(***************************************************************************)
InitDecode ==
  /\ extendedValue \in ExtendedValues \cup {NoExtendedValue}
  /\ decoded = Absent
  /\ stage = "decode"
  /\ jsonData = <<>>
  /\ dataColumns = <<>>
  /\ cellsResult = [ok |-> TRUE, cells |-> <<>>, message |-> ""]
  /\ recordSet = <<>>
  /\ req = [action |-> "NONE", spreadsheetId |-> "", sheetTitle |-> "", range |-> <<>>,
            extractFirstRowHeader |-> FALSE]
  /\ pc = "idle"
  /\ calls = <<>>
  /\ columnNames = <<>>
  /\ columnNamesOffset = 0
  /\ headerResult = NoResult
  /\ dataResult = NoResult
  /\ output = <<>>
  /\ error = ""
  /\ statuses = <<>>
  /\ thrown = ""
  /\ rowsNumber = 0
  /\ allColumns = <<>>
  /\ headerRow = <<>>
  /\ rawGrid = <<>>
  /\ headerColumns = <<>>

ApplyExtractExtendedValue ==
  /\ stage = "decode"
  /\ decoded' = extractExtendedValue(extendedValue)
  /\ stage' = "decoded"
  /\ UNCHANGED <<extendedValue, jsonData, dataColumns, cellsResult, recordSet>>
  /\ UNCHANGED <<readVars, writeVars, resolverVars>>

NextDecode == ApplyExtractExtendedValue

SpecDecode == InitDecode /\ [][NextDecode]_vars

(***************************************************************************)
(* Vocabulary of the properties                                            *)
(***************************************************************************)
IsRead == req.action \in {"READ_SPREADSHEET", "READ_SPREADSHEET_RANGE"}

IsReadRange == req.action = "READ_SPREADSHEET_RANGE"

Finished == pc \in {"done", "failed"}

\* the get of extractSheetColumns has resolved
HeaderFetched == pc \in {"getValues", "done", "failed"} /\ Len(calls) >= 1

\* the grid of the data fetch, once it has resolved
FetchedGrid == IF dataResult.hasValues THEN dataResult.values ELSE <<>>

\* the first row of the header fetch, <<>> when it has none
FetchedHeader == IF headerResult.values = <<>> THEN <<>> ELSE headerResult.values[1]

WholeSheet == "sheetTitle!A1:ZZZ10000000"

Placeholder(i) == "column" \o ToString(i)

\* the key a cell at absolute zero-based column index at gets under header row h
HeaderKey(h, at) == IF at < Len(h) THEN h[at + 1] ELSE Placeholder(at)

\* record rec holds exactly the cells of row, the cell at position i under key K(i),
\* the right-most cell winning when two positions share a key
RowKeyedBy(rec, row, K(_)) ==
  /\ \A i \in 1..Len(row) :
       /\ ObjHas(rec, K(i))
       /\ \E j \in 1..Len(row) : K(j) = K(i) /\ ObjGet(rec, K(i)) = row[j]
       /\ (\A j \in 1..Len(row) : j # i => K(j) # K(i)) => ObjGet(rec, K(i)) = row[i]
  /\ \A n \in 1..Len(rec) : \E i \in 1..Len(row) : rec[n][1] = K(i)

(***************************************************************************)
(* C1  Read without header extraction and without a range: the cell at     *)
(* zero-based position i of every fetched row is keyed "column<i>"; the     *)
(* values of sheet row 1 are never used as field names.                    *)
(***************************************************************************)
C1_PlaceholderKeysWithoutHeader ==
  (IsRead /\ ~req.extractFirstRowHeader /\ RangeArgument(req) = <<>> /\ pc = "done") =>
    /\ Len(output) = Len(FetchedGrid)
    /\ \A k \in 1..Len(output) :
         LET K(i) == Placeholder(i - 1)
         IN  RowKeyedBy(output[k], FetchedGrid[k], K)

(***************************************************************************)
(* C2  Read and Read-Range without header extraction issue exactly one     *)
(* getValues call, the one for the effective data range.                   *)
(***************************************************************************)
C2_SingleGetWithoutHeader ==
  (IsRead /\ ~req.extractFirstRowHeader /\ pc = "done") =>
    calls = << RemoteCall("get",
                 IF RangeArgument(req) = <<>> THEN WholeSheet
                 ELSE "sheetTitle!" \o JoinStr(RangeArgument(req))) >>

(***************************************************************************)
(* C3  Read with header extraction and no range: the calls are the header  *)
(* get on A1:ZZZ10000000 and then the data get on A2:ZZZ10000000, in that   *)
(* order and nothing else; a completed read has issued both and returns    *)
(* one record per row of the second fetch, the cell at position i keyed by *)
(* cell i of the first row of the first fetch (by "column<i>" past the end  *)
(* of that row).                                                           *)
(***************************************************************************)
C3_HeaderReadTwoGets ==
  (IsRead /\ req.extractFirstRowHeader /\ RangeArgument(req) = <<>>) =>
    LET both == << RemoteCall("get", WholeSheet),
                   RemoteCall("get", "sheetTitle!A2:ZZZ10000000") >>
    IN  /\ Len(calls) <= 2
        /\ calls = SubSeq(both, 1, Len(calls))
        /\ pc = "done" =>
             /\ calls = both
             /\ Len(output) = Len(FetchedGrid)
             /\ \A k \in 1..Len(output) :
                  LET K(i) == HeaderKey(FetchedHeader, i - 1)
                  IN  RowKeyedBy(output[k], FetchedGrid[k], K)

C3_Witness ==
  /\ req.action = "READ_SPREADSHEET" /\ req.extractFirstRowHeader
  /\ pc = "done"
  /\ FetchedHeader = <<"Subname", "ACI">>
  /\ FetchedGrid = << <<"ACI", "Subname">>, <<"Subname">> >>
  /\ output = << << <<"Subname", "ACI">>, <<"ACI", "Subname">> >>,
                 << <<"Subname", "Subname">> >> >>

(***************************************************************************)
(* C4  Header extraction requested and the header fetch returns no rows    *)
(* (no value list, or an empty one): the read fails with "The specifed row *)
(* number(1) doesn't have a header." and issues no data fetch.             *)
(***************************************************************************)
C4_MissingHeaderError ==
  (IsRead /\ req.extractFirstRowHeader /\ HeaderFetched /\ headerResult.values = <<>>) =>
    /\ pc = "failed"
    /\ error = "Google Sheets request failed. The specifed row number(1) doesn't have a header."
    /\ Len(calls) = 1

(***************************************************************************)
(* C5  Read-Range with header extraction over a range at row 1 of height 1 *)
(* returns the empty record sequence, the header fetch being its only      *)
(* remote call.                                                            *)
(***************************************************************************)
HeaderOnlyRequest ==
  /\ IsReadRange /\ req.extractFirstRowHeader
  /\ ExecuteValidation(req) = ""
  /\ req.range # <<>>
  /\ A1_new(req.range).rowStart = 1 /\ A1_new(req.range).rowEnd = 1

\* (checked where the range is spelled canonically and the header reply is not an
\* empty value list, on which the read fails for the reason given under C4)
C5_HeaderOnlyRangeReturnsEmpty ==
  (HeaderOnlyRequest /\ Finished
     /\ JoinStr(req.range) = A1_toString(A1_new(req.range))
     /\ ~(headerResult.hasValues /\ headerResult.values = <<>>)) =>
    /\ pc = "done"
    /\ output = <<>>
    /\ calls = << RemoteCall("get", WholeSheet) >>

\* C5 as amended: such a read never issues a get for the data range (its only
\* remote call is the header fetch), and it returns the empty record sequence when
\* the range is in canonical form and the header fetch returned at least one row.
C5_HeaderOnlyRangeNoDataFetch ==
  HeaderOnlyRequest =>
    /\ Len(calls) <= 1
    /\ Len(calls) = 1 => calls[1] = RemoteCall("get", WholeSheet)
    /\ (HeaderFetched /\ headerResult.values # <<>>
          /\ JoinStr(req.range) = A1_toString(A1_new(req.range))) =>
         (pc = "done" /\ output = <<>> /\ Len(calls) = 1)

C5_Witness ==
  /\ HeaderOnlyRequest
  /\ req.range = <<"A", "1", ":", "B", "1">>
  /\ FetchedHeader = <<"Subname", "ACI">>
  /\ pc = "done"
  /\ output = <<>>

(***************************************************************************)
(* C6  Read-Range with header extraction: the header is fetched from sheet *)
(* row 1; the data range fetched is the user's range with its start row    *)
(* advanced by one (same columns, same end row) when the range starts at   *)
(* row 1 with height > 1, and the user's range unchanged when it starts    *)
(* below row 1.                                                            *)
(***************************************************************************)
C6_AdjustedDataRange ==
  (IsReadRange /\ req.extractFirstRowHeader /\ req.range # <<>>) =>
    LET user == A1_new(req.range)
        advanced == [colStart |-> user.colStart, rowStart |-> user.rowStart + 1,
                     colEnd |-> user.colEnd, rowEnd |-> user.rowEnd]
    IN  /\ Len(calls) >= 1 => calls[1] = RemoteCall("get", WholeSheet)
        /\ Len(calls) <= 2
        /\ Len(calls) = 2 =>
             /\ calls[2].op = "get"
             /\ user.rowStart = 1 =>
                  /\ user.rowEnd > 1
                  /\ calls[2].range = "sheetTitle!" \o A1_toString(advanced)
             /\ user.rowStart > 1 => calls[2].range = "sheetTitle!" \o JoinStr(req.range)

C6_Witness ==
  /\ IsReadRange /\ req.extractFirstRowHeader
  /\ req.range = <<"A", "1", ":", "B", "2">>
  /\ pc = "done"
  /\ calls = << RemoteCall("get", WholeSheet), RemoteCall("get", "sheetTitle!A2:B2") >>

(***************************************************************************)
(* C7  Read-Range over a range whose first column is the c-th sheet        *)
(* column: the cell at position i of a fetched row is keyed by the header  *)
(* column at absolute index c-1+i when header extraction is requested and  *)
(* the header has that index, and by "column<c-1+i>" otherwise.             *)
(***************************************************************************)
C7_AbsoluteColumnKeys ==
  (IsReadRange /\ req.range # <<>> /\ pc = "done" /\ Len(calls) = 2) =>
    /\ Len(output) = Len(FetchedGrid)
    /\ \A k \in 1..Len(output) :
         LET c == A1_new(req.range).colStart
             K(i) == IF req.extractFirstRowHeader
                     THEN HeaderKey(FetchedHeader, c - 1 + (i - 1))
                     ELSE Placeholder(c - 1 + (i - 1))
         IN  RowKeyedBy(output[k], FetchedGrid[k], K)

(***************************************************************************)
(* C8  A Read-Range request (spreadsheet and sheet named) whose range is   *)
(* not valid A1 notation fails with "The provided range <range> is         *)
(* invalid", and no remote call is ever issued for it.                     *)
(***************************************************************************)
C8_InvalidRangeRejected ==
  (IsReadRange /\ req.spreadsheetId # "" /\ req.sheetTitle # ""
     /\ req.range # <<>> /\ ~A1_isValid(req.range)) =>
    /\ calls = <<>>
    /\ pc \in {"start", "failed"}
    /\ pc = "failed" =>
         error = "Google Sheets request failed. The provided range "
                   \o JoinStr(req.range) \o " is invalid"

C8_Witness ==
  /\ IsReadRange
  /\ req.range = <<"X", "X">>
  /\ pc = "failed"
  /\ error = "Google Sheets request failed. The provided range XX is invalid"
  /\ calls = <<>>

(***************************************************************************)
(* C9  Every Read-Range request whose range parses and re-serializes to a  *)
(* different string is rejected with the invalid-range error and returns   *)
(* no records. (A read that has already failed on a header fetch without   *)
(* rows is not held to the error message.)                                 *)
(***************************************************************************)
C9_RoundTripUnstableRejected ==
  (IsReadRange /\ req.spreadsheetId # "" /\ req.sheetTitle # ""
     /\ req.range # <<>> /\ A1_isValid(req.range)
     /\ JoinStr(req.range) # A1_toString(A1_new(req.range))
     /\ Finished) =>
    /\ pc = "failed"
    /\ headerResult.values # <<>> =>
         error = "Google Sheets request failed. The provided range "
                   \o JoinStr(req.range) \o " is invalid"

(***************************************************************************)
(* C10  Round trip: for every non-empty sequence of records, the columns   *)
(* from extractDataColumns, the grid from dataToCells and the records from *)
(* sheetDataToRecordSet (offset 0) give back a sequence of the same length *)
(* whose k-th record has exactly the keys of the k-th input record, each   *)
(* with its original value.                                                *)
(***************************************************************************)
SameEntries(a, b) ==
  /\ {a[i][1] : i \in 1..Len(a)} = {b[i][1] : i \in 1..Len(b)}
  /\ \A i \in 1..Len(a) : ObjGet(b, a[i][1]) = a[i][2]

C10_RoundTrip ==
  (jsonData # <<>> /\ stage \in {"done", "thrown"}) =>
    /\ stage = "done"
    /\ Len(recordSet) = Len(jsonData)
    /\ \A k \in 1..Len(jsonData) : SameEntries(jsonData[k], recordSet[k])

\* no two keys of the records, of one record or of two, differ in letter case only
CaseDistinctKeys(data) ==
  \A a, b \in {AllKeys(data)[i] : i \in 1..Len(AllKeys(data))} :
    toLowerCase(a) = toLowerCase(b) => a = b

\* C10 as amended: the round trip gives every record back, key for key and value for
\* value, for every non-empty sequence of records in which no two keys differ in
\* letter case only.
C10_RoundTripCaseDistinct ==
  (jsonData # <<>> /\ CaseDistinctKeys(jsonData) /\ stage \in {"done", "thrown"}) =>
    /\ stage = "done"
    /\ Len(recordSet) = Len(jsonData)
    /\ \A k \in 1..Len(jsonData) : SameEntries(jsonData[k], recordSet[k])

C10_Witness ==
  /\ stage = "done"
  /\ jsonData = << << <<"Name", "X">> >>, << <<"ACI", "Y">>, <<"Name", "X">> >> >>
  /\ cellsResult.cells = << <<"X">>, <<"X", "Y">> >>
  /\ recordSet = << << <<"Name", "X">> >>, << <<"Name", "X">>, <<"ACI", "Y">> >> >>

(***************************************************************************)
(* C11  dataToCells over a non-empty column list: the call succeeds exactly *)
(* when every key of every record equals some column name under            *)
(* case-insensitive comparison, and then each record gives one row in      *)
(* which the value of a key stands at the sourceColumnIndex of a column    *)
(* the key matches (of two keys of one record matching the same column,    *)
(* the later one); otherwise no grid is returned and the error message     *)
(* names a key that matches no column and lists every column name.         *)
(***************************************************************************)
MatchesColumn(key, column) == toLowerCase(column.name) = toLowerCase(key)

Accepted(key, columns) == \E i \in 1..Len(columns) : MatchesColumn(key, columns[i])

\* the names of the header row, quoted and separated by ", "
ListedNames(row) ==
  LET named == SelectSeq(row, LAMBDA n : n # "")
  IN  JoinWith([i \in 1..Len(named) |-> "\"" \o named[i] \o "\""], ", ")

C11_UnmatchedKeyRejected ==
  (stage \in {"projected", "thrown"} /\ headerColumns # <<>>) =>
    LET keys == AllKeys(jsonData)
        allAccepted == \A n \in 1..Len(keys) : Accepted(keys[n], headerColumns)
    IN  /\ cellsResult.ok <=> allAccepted
        /\ (stage = "projected") <=> allAccepted
        /\ cellsResult.ok =>
             /\ Len(cellsResult.cells) = Len(jsonData)
             /\ \A k \in 1..Len(jsonData) : \A e \in 1..Len(jsonData[k]) :
                  (\A l \in (e + 1)..Len(jsonData[k]) :
                     toLowerCase(jsonData[k][l][1]) # toLowerCase(jsonData[k][e][1])) =>
                    \E i \in 1..Len(headerColumns) :
                      /\ MatchesColumn(jsonData[k][e][1], headerColumns[i])
                      /\ headerColumns[i].sourceColumnIndex < Len(cellsResult.cells[k])
                      /\ cellsResult.cells[k][headerColumns[i].sourceColumnIndex + 1]
                           = jsonData[k][e][2]
        /\ ~cellsResult.ok =>
             /\ cellsResult.cells = <<>>
             /\ \E n \in 1..Len(keys) :
                  /\ ~Accepted(keys[n], headerColumns)
                  /\ cellsResult.message =
                       "Unexpected key: \"" \o keys[n] \o "\". Expected keys are: "
                         \o ListedNames(headerRow)

C11_Witness ==
  /\ stage = "thrown"
  /\ headerRow = <<"Subname", "ACI">>
  /\ jsonData = << << <<"subname", "x1">> >>, << <<"subname", "x2">>, <<"NewCol", "Y2">> >> >>
  /\ cellsResult.message =
       "Unexpected key: \"NewCol\". Expected keys are: \"Subname\", \"ACI\""

(***************************************************************************)
(* C12  sheetDataToRecordSet: every grid row, an empty one too, gives       *)
(* exactly one record, in order; the record has an entry exactly for the   *)
(* keys of the positions at which the row holds a defined cell, each with  *)
(* the value of such a cell, and no entry is undefined, null or "" for a   *)
(* position the row does not hold.                                         *)
(***************************************************************************)
C12_SparseCellsOmitted ==
  stage = "done" =>
    /\ Len(recordSet) = Len(rawGrid)
    /\ \A k \in 1..Len(rawGrid) :
         LET row == rawGrid[k]
             rec == recordSet[k]
             defined == {i \in 1..Len(row) : row[i] # undefined}
         IN  /\ \A i \in defined : ObjHas(rec, HeaderKey(headerRow, i - 1))
             /\ \A n \in 1..Len(rec) :
                  /\ rec[n][2] \notin {undefined, "", "<null>"}
                  /\ \E i \in defined :
                       rec[n][1] = HeaderKey(headerRow, i - 1) /\ rec[n][2] = row[i]
                  /\ \A m \in 1..Len(rec) : m # n => rec[m][1] # rec[n][1]

C12_Witness ==
  /\ stage = "done"
  /\ headerRow = <<"Subname", "ACI">>
  /\ rawGrid = << <<undefined, "X">>, <<>> >>
  /\ recordSet = << << <<"ACI", "X">> >>, <<>> >>

(***************************************************************************)
(* C13  Create-Rows, Append destination, includeHeaderRow: the merged       *)
(* column list is the cells of the fetched header row in their order       *)
(* (none when the row is empty) followed by every record key absent from   *)
(* the header, in first-seen order, indices continuing; the header update  *)
(* carries exactly the names of that list; and each appended row holds     *)
(* each value of its record at the index of the merged column of its key,  *)
(* the positions the record does not reference being absent.               *)
(***************************************************************************)
IsCreateRows == req.action = "CREATE_SPREADSHEET_ROWS" /\ ExecuteValidation(req) = ""

AppendWithHeader ==
  IsCreateRows /\ req.writeToDestinationType = "APPEND" /\ req.includeHeaderRow

\* the row the header get returned, <<>> when it returned none
FetchedHeaderRow ==
  IF headerResult.hasValues /\ headerResult.values # <<>> THEN headerResult.values[1] ELSE <<>>

\* the header followed by the keys of the records it does not hold, each once
MergedNames(header, data) ==
  header \o Distinct(SelectSeq(AllKeys(data),
                               LAMBDA key : \A i \in 1..Len(header) : header[i] # key), {})

C13_AppendMergesColumns ==
  (AppendWithHeader /\ Len(calls) >= 4) =>
    LET data == JsonData(req)
        merged == MergedNames(FetchedHeaderRow, data)
    IN  /\ allColumns = [i \in 1..Len(merged) |-> SheetColumn(merged[i], i - 1)]
        /\ calls[4].op = "update"
        /\ calls[4].values = << merged >>
        /\ Len(calls) >= 5 =>
             /\ calls[5].op = "append"
             /\ Len(calls[5].values) = Len(data)
             /\ \A k \in 1..Len(data) :
                  LET row == calls[5].values[k]
                  IN  /\ \A e \in 1..Len(data[k]) :
                           \E i \in 1..Len(row) :
                             merged[i] = data[k][e][1] /\ row[i] = data[k][e][2]
                      /\ \A i \in 1..Len(row) :
                           row[i] # undefined => ObjHas(data[k], merged[i])

(***************************************************************************)
(* C14  Merge and from-data strategies match names case-insensitively: a   *)
(* record key equal to a header name but for letter case adds no column,   *)
(* so over a header whose names are unique but for case the merged list    *)
(* is the header plus one column per key that matches no header name, and  *)
(* the names of the merged list and of the from-data list are unique but   *)
(* for case.                                                               *)
(***************************************************************************)
CaseInsensitivelyUnique(names) ==
  \A i, j \in 1..Len(names) : i # j => toLowerCase(names[i]) # toLowerCase(names[j])

ColumnNames(columns) == [i \in 1..Len(columns) |-> columns[i].name]

C14_MergeCaseInsensitive ==
  (stage \in {"project", "projected", "thrown"} /\ CaseInsensitivelyUnique(headerRow)) =>
    /\ CaseInsensitivelyUnique(ColumnNames(allColumns))
    /\ CaseInsensitivelyUnique(ColumnNames(dataColumns))
    /\ \A i \in 1..Len(allColumns) :
         i > Len(headerRow) => ~Accepted(allColumns[i].name, headerColumns)

(***************************************************************************)
(* C15  Create-Rows, RowNumber destination, headerRowNumber >= rowNumber:  *)
(* the request fails with "Data must be inserted after the table header    *)
(* row number (<headerRowNumber>)" and no remote call is ever issued.      *)
(***************************************************************************)
\* a Create-Rows request for a row number, naming its spreadsheet and sheet
ToRowNumber ==
  /\ req.action = "CREATE_SPREADSHEET_ROWS"
  /\ validateCommon(req) = ""
  /\ req.writeToDestinationType = "ROW_NUMBER"

HeaderNotBeforeData ==
  /\ ToRowNumber
  /\ req.rowNumber # <<>> /\ req.headerRowNumber # <<>>
  /\ req.headerRowNumber[1] >= req.rowNumber[1]

C15_HeaderNotBeforeDataRejected ==
  HeaderNotBeforeData =>
    /\ calls = <<>>
    /\ pc \in {"start", "failed"}
    /\ pc = "failed" =>
         error = "Google Sheets request failed. Data must be inserted after the table "
                   \o "header row number (" \o ToString(req.headerRowNumber[1]) \o ")"

\* C15 as amended: with a rowNumber other than 0, a headerRowNumber >= rowNumber is
\* rejected with the ordering error; no such request, rowNumber 0 included (which is
\* rejected with "Row number is required"), ever issues a remote call.
C15_OrderingRejectedForNonZeroRow ==
  HeaderNotBeforeData =>
    /\ calls = <<>>
    /\ pc \in {"start", "failed"}
    /\ pc = "failed" =>
         error = (IF req.rowNumber[1] = 0
                  THEN "Google Sheets request failed. Row number is required"
                  ELSE "Google Sheets request failed. Data must be inserted after the table "
                         \o "header row number (" \o ToString(req.headerRowNumber[1]) \o ")")

C15_Witness ==
  /\ HeaderNotBeforeData
  /\ req.headerRowNumber = <<42>> /\ req.rowNumber = <<1>>
  /\ pc = "failed"
  /\ calls = <<>>
  /\ error = "Google Sheets request failed. Data must be inserted after the table "
               \o "header row number (42)"

(***************************************************************************)
(* C16  Create-Rows, RowNumber destination, a negative rowNumber and no    *)
(* headerRowNumber: the request fails with "Row number has to be a         *)
(* positive number" under the action prefix, before any remote call.       *)
(***************************************************************************)
C16_NegativeRowNumberRejected ==
  (ToRowNumber /\ req.rowNumber # <<>> /\ req.rowNumber[1] < 0
     /\ req.headerRowNumber = <<>> /\ pc # "start") =>
    /\ pc = "failed"
    /\ calls = <<>>
    /\ error = "Google Sheets request failed. Row number has to be a positive number"

(***************************************************************************)
(* C17  Index invariant: in every column list of the from-header strategy  *)
(* (extractSheetColumns, extractSheetColumnsRows), of the from-data        *)
(* strategy (extractDataColumns) and of the merge strategy                 *)
(* (extractAllColumns), the column at zero-based position i has            *)
(* sourceColumnIndex i.                                                    *)
(***************************************************************************)
IndexInvariant(columns) ==
  \A i \in 1..Len(columns) : columns[i].sourceColumnIndex = i - 1

C17_IndexInvariant ==
  stage \in {"project", "projected", "thrown"} =>
    /\ Len(headerColumns) = Len(headerRow) /\ IndexInvariant(headerColumns)
    /\ IndexInvariant(extractSheetColumnsRows(HeaderReply(headerRow)).columns)
    /\ Len(extractSheetColumnsRows(HeaderReply(headerRow)).columns) = Len(headerRow)
    /\ IndexInvariant(dataColumns)
    /\ Len(allColumns) >= Len(headerRow) /\ IndexInvariant(allColumns)

C17_Witness ==
  /\ stage = "project"
  /\ headerRow = <<"Subname", "ACI">>
  /\ jsonData = << << <<"NewCol", "Y1">> >>, << <<"Subname", "X2">>, <<"subname", "x2">> >> >>
  /\ allColumns = << SheetColumn("Subname", 0), SheetColumn("ACI", 1),
                     SheetColumn("NewCol", 2), SheetColumn("subname", 3) >>
  /\ dataColumns = << SheetColumn("NewCol", 0), SheetColumn("Subname", 1),
                      SheetColumn("subname", 2) >>

(***************************************************************************)
(* C18  Whatever remote call of whatever action returns a status other     *)
(* than 200, the action does not complete, and when it has failed its      *)
(* error names the operation and the status received.                      *)
(***************************************************************************)
\* the errors that name an operation and the status it returned
StatusErrors(status) ==
  {what \o ", unexpected status: " \o ToString(status) :
     what \in {"Failed to read data from Google Sheet",
               "Failed to clear Google Sheet",
               "Failed to write table header to Google Sheet",
               "Failed to clear data to Google Sheet",
               "Failed to write data to Google Sheet",
               "Failed to append data to Google Sheet"}}

C18_NonSuccessStatusFails ==
  \A i \in 1..Len(statuses) :
    statuses[i] # 200 =>
      /\ pc # "done"
      /\ pc = "failed" => thrown \in StatusErrors(statuses[i])

(***************************************************************************)
(* C19  Once a clear, update or append has returned a status other than    *)
(* 200, the action has failed and that call is the last one it issued: no  *)
(* header update after a failed header clear, no data update after a       *)
(* failed destination clear, no call issued twice.                         *)
(***************************************************************************)
C19_AbortOnFailedWrite ==
  /\ Len(statuses) <= Len(calls)
  /\ \A i \in 1..Len(statuses) :
       (statuses[i] # 200 /\ calls[i].op \in {"clear", "update", "append"}) =>
         /\ pc = "failed"
         /\ Len(calls) = i
         /\ Len(statuses) = i
         /\ output = <<>>

C19_Witness ==
  /\ req.action = "CREATE_SPREADSHEET_ROWS"
  /\ req.writeToDestinationType = "APPEND" /\ req.includeHeaderRow
  /\ pc = "failed"
  /\ statuses = <<200, 200, 500>>
  /\ Len(calls) = 3 /\ calls[3] = RemoteCall("clear", "sheetTitle!A1:ZZZ1")
  /\ thrown = "Failed to clear Google Sheet, unexpected status: 500"

(***************************************************************************)
(* C20  Every failure of execute, from validation, column resolution,      *)
(* projection or a remote call, reaches the caller as one error whose      *)
(* message is "Google Sheets request failed. " followed by the message of  *)
(* the error caught, and nothing is returned as output on that path.       *)
(***************************************************************************)
C20_FailuresWrapped ==
  /\ pc = "failed" =>
       /\ thrown # ""
       /\ error = "Google Sheets request failed. " \o thrown
       /\ output = <<>>
  /\ pc # "failed" => error = "" /\ thrown = ""

C20_Witness ==
  /\ req.action = "CREATE_SPREADSHEET_ROWS" /\ req.writeToDestinationType = "ROW_NUMBER"
  /\ req.includeHeaderRow
  /\ pc = "failed"
  /\ Len(calls) = 4 /\ calls[4].op = "update"
  /\ statuses = <<200, 200, 200, 500>>
  /\ error = "Google Sheets request failed. Failed to write data to Google Sheet, "
               \o "unexpected status: 500"
  /\ output = <<>>

(***************************************************************************)
(* C21  Create-Rows, Append destination: with r the greater of the number  *)
(* of rows the whole-sheet get returned and headerRowNumber (1 when not    *)
(* given), the append addresses "<sheetTitle>!A<r+1>:ZZZ<r+1>", a row      *)
(* after the header row; without includeHeaderRow the action issues one    *)
(* get and one append and no clear or update, the columns being those of   *)
(* the data alone.                                                         *)
(***************************************************************************)
AppendDestination == IsCreateRows /\ req.writeToDestinationType = "APPEND"

\* the rows the whole-sheet get of doAppend returned
FetchedRowCount == IF dataResult.hasValues THEN Len(dataResult.values) ELSE 0

C21_AppendAfterLastRowAndHeader ==
  AppendDestination =>
    LET h == IF req.headerRowNumber = <<>> THEN 1 ELSE req.headerRowNumber[1]
        r == IF FetchedRowCount >= h THEN FetchedRowCount ELSE h
        row == ToString(r + 1)
    IN  /\ r + 1 > h
        /\ \A i \in 1..Len(calls) :
             calls[i].op = "append" =>
               /\ i = Len(calls)
               /\ calls[i].range = req.sheetTitle \o "!A" \o row \o ":ZZZ" \o row
        /\ Len(calls) >= 1 => calls[1] = RemoteCall("get", req.sheetTitle \o "!A1:ZZZ10000000")
        /\ ~req.includeHeaderRow =>
             /\ Len(calls) <= 2
             /\ pc \in {"start", "extractSheetRows", "extractDataColumns", "append", "done",
                       "failed"}
             /\ pc = "extractDataColumns" => Len(calls) = 1
             /\ pc \in {"append", "done", "failed"} =>
                  /\ Len(calls) = 2
                  /\ calls[2].op = "append"
                  /\ allColumns = extractDataColumns(JsonData(req))
                  /\ calls[2].values = dataToCells(JsonData(req), allColumns).cells

C21_Witness ==
  /\ AppendDestination /\ ~req.includeHeaderRow
  /\ req.headerRowNumber = <<2>>
  /\ FetchedRowCount = 1
  /\ pc = "done"
  /\ Len(calls) = 2
  /\ calls[2].op = "append" /\ calls[2].range = "sheetTitle!A3:ZZZ3"
  /\ calls[2].values = << <<"X1">>, <<undefined, "Y2">> >>

(***************************************************************************)
(* C22  Create-Rows, Append destination, includeHeaderRow: the remote      *)
(* calls are, in this order, the get of the whole sheet, the get of the    *)
(* header row "A<h>:ZZZ<h>", the clear of "A<h>:ZZZ<h>", the update of     *)
(* "A<h>:ZZZ<h>" with the merged header names, and the append; the action  *)
(* completes only after all five.                                          *)
(***************************************************************************)
\* the call expected at position i of the append flow with a header
ExpectedAppendCall(i) ==
  LET h == ToString(IF req.headerRowNumber = <<>> THEN 1 ELSE req.headerRowNumber[1])
      headerRange == req.sheetTitle \o "!A" \o h \o ":ZZZ" \o h
  IN  CASE i = 1 -> calls[i] = RemoteCall("get", req.sheetTitle \o "!A1:ZZZ10000000")
        [] i = 2 -> calls[i] = RemoteCall("get", headerRange)
        [] i = 3 -> calls[i] = RemoteCall("clear", headerRange)
        [] i = 4 -> calls[i] = RemoteWrite("update", headerRange,
                                           << ColumnNames(extractAllColumns(headerResult,
                                                                            JsonData(req))) >>)
        [] i = 5 -> calls[i].op = "append"
        [] OTHER -> FALSE

C22_AppendWithHeaderCallOrder ==
  AppendWithHeader =>
    /\ \A i \in 1..Len(calls) : ExpectedAppendCall(i)
    /\ pc = "done" => Len(calls) = 5
    /\ pc = "extractSheetRows" <=> (Len(calls) = 1)
    /\ pc = "extractAllColumns" <=> (Len(calls) = 2)
    /\ pc = "headerClear" <=> (Len(calls) = 3 /\ Len(statuses) = 2)
    /\ pc = "headerUpdate" <=> (Len(calls) = 4 /\ Len(statuses) = 3)
    /\ pc = "append" <=> (Len(calls) = 5 /\ Len(statuses) = 4)

C22_Witness ==
  /\ AppendWithHeader
  /\ req.headerRowNumber = <<2>>
  /\ pc = "done"
  /\ headerResult.values = << <<"Subname">> >>
  /\ [i \in 1..Len(calls) |-> calls[i].op] = <<"get", "get", "clear", "update", "append">>
  /\ [i \in 1..4 |-> calls[i].range]
       = <<"sheetTitle!A1:ZZZ10000000", "sheetTitle!A2:ZZZ2", "sheetTitle!A2:ZZZ2",
           "sheetTitle!A2:ZZZ2">>
  /\ calls[4].values = << <<"Subname", "NewCol">> >>

(***************************************************************************)
(* C23  Create-Rows, RowNumber destination, n >= 1 records: the clear of   *)
(* the destination and the update of the data address the same range       *)
(* "<sheetTitle>!A<rowNumber>:ZZZ<rowNumber+n-1>", the clear comes before  *)
(* the update, the header write (when includeHeaderRow) comes before      *)
(* both, and no get is issued: the columns are those of the data.          *)
(***************************************************************************)
RowNumberDestination == IsCreateRows /\ req.writeToDestinationType = "ROW_NUMBER"

\* the calls of the header write of a RowNumber request: two with includeHeaderRow
HeaderWriteCalls == IF req.includeHeaderRow THEN 2 ELSE 0

C23_RowNumberWriteRange ==
  (RowNumberDestination /\ Len(JsonData(req)) >= 1) =>
    LET n == Len(JsonData(req))
        destination == req.sheetTitle \o "!A" \o ToString(req.rowNumber[1]) \o ":ZZZ"
                         \o ToString(req.rowNumber[1] + n - 1)
        k == HeaderWriteCalls
    IN  /\ \A i \in 1..Len(calls) : calls[i].op # "get"
        /\ Len(calls) <= k + 2
        /\ allColumns = extractDataColumns(JsonData(req)) \/ pc = "start"
        /\ (req.includeHeaderRow /\ Len(calls) >= 1) => calls[1].op = "clear"
        /\ (req.includeHeaderRow /\ Len(calls) >= 2) =>
             /\ calls[2].op = "update"
             /\ calls[2].range = calls[1].range
             /\ calls[2].values = << ColumnNames(extractDataColumns(JsonData(req))) >>
        /\ Len(calls) >= k + 1 => calls[k + 1] = RemoteCall("clear", destination)
        /\ Len(calls) >= k + 2 =>
             /\ calls[k + 2].op = "update"
             /\ calls[k + 2].range = destination
             /\ Len(calls[k + 2].values) = n
        /\ pc = "done" => Len(calls) = k + 2

C23_Witness ==
  /\ RowNumberDestination /\ req.includeHeaderRow
  /\ req.rowNumber = <<3>> /\ Len(JsonData(req)) = 2
  /\ pc = "done"
  /\ Len(calls) = 4
  /\ calls[3] = RemoteCall("clear", "sheetTitle!A3:ZZZ4")
  /\ calls[4].op = "update" /\ calls[4].range = "sheetTitle!A3:ZZZ4"

(***************************************************************************)
(* C24  Clear issues exactly one clear call: on                            *)
(* "<sheetTitle>!A1:ZZZ10000000" without header preservation, on           *)
(* "<sheetTitle>!A<headerRowNumber+1>:ZZZ10000000" with it, so that the    *)
(* cleared rows start below the header row; a request asking for           *)
(* preservation without a headerRowNumber is rejected before the call.     *)
(***************************************************************************)
\* a Clear request naming its spreadsheet and sheet
IsClear == req.action = "CLEAR_SPREADSHEET" /\ validateCommon(req) = ""

\* the first row of the range a Clear request clears
FirstClearedRow == IF req.preserveHeaderRow THEN req.headerRowNumber[1] + 1 ELSE 1

C24_ClearRange ==
  IsClear =>
    IF req.preserveHeaderRow /\ req.headerRowNumber = <<>>
    THEN /\ calls = <<>>
         /\ pc \in {"start", "failed"}
         /\ pc = "failed" =>
              error = "Google Sheets request failed. Header row number is required "
                        \o "because you are including a header row"
    ELSE /\ Len(calls) <= 1
         /\ pc = "done" => Len(calls) = 1
         /\ Len(calls) = 1 =>
              /\ calls[1] = RemoteCall("clear", req.sheetTitle \o "!A"
                                                  \o ToString(FirstClearedRow)
                                                  \o ":ZZZ10000000")
              /\ req.preserveHeaderRow => FirstClearedRow > req.headerRowNumber[1]

C24_Witness ==
  /\ IsClear /\ req.preserveHeaderRow /\ req.headerRowNumber = <<2>>
  /\ pc = "done"
  /\ calls = << RemoteCall("clear", "sheetTitle!A3:ZZZ10000000") >>

(***************************************************************************)
(* C25  extractExtendedValue: the result is the first variant that is set  *)
(* and not null in the order string, number, boolean, error; 0, false and  *)
(* "" are returned, not skipped; when none of the four is set the result   *)
(* is undefined.                                                           *)
(***************************************************************************)
\* the four variants of an extended value, in the order of the claim
FourVariants(value) ==
  <<value.stringValue, value.numberValue, value.boolValue, value.errorValue>>

Present(variant) == variant # Absent /\ variant # Null

C25_FirstPresentVariant ==
  stage = "decoded" =>
    IF ~extendedValue.given THEN decoded = Absent
    ELSE LET four == FourVariants(extendedValue)
         IN  /\ \A i \in 1..4 :
                  (Present(four[i]) /\ \A j \in 1..(i - 1) : ~Present(four[j])) =>
                    decoded = four[i]
             /\ (\A i \in 1..4 : ~Present(four[i])) => decoded = Absent

(***************************************************************************)
(* C26  extractDataColumns: the column names are exactly the distinct keys *)
(* occurring in any record, each once, ordered by first occurrence when    *)
(* the records are scanned in order and the keys of each record in its     *)
(* order; no records give no columns.                                      *)
(***************************************************************************)
\* the position of the first occurrence of key in the keys of all records, scanned in order
FirstOccurrence(key, data) ==
  LET keys == AllKeys(data)
  IN  CHOOSE p \in 1..Len(keys) : keys[p] = key /\ \A q \in 1..(p - 1) : keys[q] # key

C26_DataColumnsFirstSeen ==
  stage \in {"dataToCells", "sheetDataToRecordSet", "thrown", "done"} =>
    LET names == ColumnNames(dataColumns)
    IN  /\ \A i \in 1..Len(names) : \E k \in 1..Len(jsonData) : ObjHas(jsonData[k], names[i])
        /\ \A k \in 1..Len(jsonData) : \A e \in 1..Len(jsonData[k]) :
             \E i \in 1..Len(names) : names[i] = jsonData[k][e][1]
        /\ \A i, j \in 1..Len(names) : i # j => names[i] # names[j]
        /\ \A i, j \in 1..Len(names) :
             i < j => FirstOccurrence(names[i], jsonData) < FirstOccurrence(names[j], jsonData)
        /\ jsonData = <<>> => dataColumns = <<>>

C26_Witness ==
  /\ stage = "dataToCells"
  /\ jsonData = << << <<"Name", "X">>, <<"ACI", "Y">> >>, << <<"name", "Y">>, <<"Name", "Y">> >> >>
  /\ ColumnNames(dataColumns) = <<"Name", "ACI", "name">>

(***************************************************************************)
(* C27  Create-Rows, RowNumber destination, validation passed,             *)
(* includeHeaderRow: the row the header is written at (headerRowNumber, 1  *)
(* when not given) is strictly less than rowNumber, so the destination     *)
(* range cleared and written with the data never holds the header row just *)
(* written.                                                                *)
(***************************************************************************)
\* the row writeTableHeader is handed
WrittenHeaderRow == IF req.headerRowNumber = <<>> THEN 1 ELSE req.headerRowNumber[1]

C27_HeaderAboveDestination ==
  (RowNumberDestination /\ req.includeHeaderRow /\ Len(calls) >= 1) =>
    /\ calls[1] = RemoteCall("clear", req.sheetTitle \o "!A" \o ToString(WrittenHeaderRow)
                                        \o ":ZZZ" \o ToString(WrittenHeaderRow))
    /\ WrittenHeaderRow < req.rowNumber[1]

(***************************************************************************)
(* C28  Read with header extraction over a header holding one name at two  *)
(* or more positions: every record has at most one entry under that name,  *)
(* its value is that of the right-most cell of the row among those         *)
(* positions, and the record has no entry for the other cells under that   *)
(* name.                                                                   *)
(***************************************************************************)
\* the names the fetched header holds at two or more positions
DuplicatedNames ==
  {FetchedHeader[p] : p \in {q \in 1..Len(FetchedHeader) :
                               \E o \in 1..Len(FetchedHeader) :
                                 o # q /\ FetchedHeader[o] = FetchedHeader[q]}}

\* the zero-based sheet column of the first cell of the fetched rows
FirstColumnRead == IF RangeArgument(req) = <<>> THEN 0 ELSE A1_new(req.range).colStart - 1

C28_DuplicateNameRightMostWins ==
  (IsRead /\ req.extractFirstRowHeader /\ pc = "done" /\ Len(calls) = 2) =>
    /\ Len(output) = Len(FetchedGrid)
    /\ \A k \in 1..Len(output) : \A n \in DuplicatedNames :
         LET row == FetchedGrid[k]
             under == {i \in 1..Len(row) :
                         HeaderKey(FetchedHeader, FirstColumnRead + i - 1) = n}
             entries == {e \in 1..Len(output[k]) : output[k][e][1] = n}
         IN  /\ Cardinality(entries) <= 1
             /\ under = {} => entries = {}
             /\ under # {} =>
                  /\ Cardinality(entries) = 1
                  /\ ObjGet(output[k], n) = row[CHOOSE i \in under : \A j \in under : j <= i]

C28_Witness ==
  /\ IsRead /\ req.extractFirstRowHeader /\ pc = "done" /\ Len(calls) = 2
  /\ FetchedHeader = <<"Subname", "Subname">>
  /\ FetchedGrid = << <<"Subname", "ACI">>, <<"ACI">> >>
  /\ output = << << <<"Subname", "ACI">> >>, << <<"Subname", "ACI">> >> >>

(***************************************************************************)
(* C29  In both Create-Rows flows, with or without includeHeaderRow,       *)
(* dataToCells never raises the unmatched-key error, whatever the records  *)
(* and whatever the header row found: every key of every record matches a  *)
(* column of the list resolved, and a Create-Rows action that fails after  *)
(* validation fails on the status of a remote call only.                   *)
(***************************************************************************)
\* the column list of the Create-Rows flow has been resolved
ColumnsResolved == pc \in {"headerClear", "headerUpdate", "clear", "update", "append", "done"}

C29_NoUnmatchedKeyInCreateRows ==
  IsCreateRows =>
    /\ ColumnsResolved =>
         /\ dataToCells(JsonData(req), allColumns).ok
         /\ \A k \in 1..Len(JsonData(req)) : \A e \in 1..Len(JsonData(req)[k]) :
              Accepted(JsonData(req)[k][e][1], allColumns)
    /\ pc = "failed" =>
         /\ Len(statuses) >= 1
         /\ thrown \in StatusErrors(statuses[Len(statuses)])

C29_Witness ==
  /\ AppendWithHeader
  /\ pc = "done"
  /\ headerResult.values = << <<"ACI">> >>
  /\ JsonData(req) = << << <<"Subname", "X1">> >>, << <<"NewCol", "Y2">> >> >>
  /\ Len(calls) = 5
  /\ calls[4].values = << <<"ACI", "Subname", "NewCol">> >>
  /\ calls[5].values = << <<undefined, "X1">>, <<undefined, undefined, "Y2">> >>

====
